---- MODULE Spec2Model ----
(***************************************************************************)
(* Cross-mesh resharding (alpa/pipeline_parallel/cross_mesh_resharding.py). *)
(*                                                                         *)
(* The module models, as state machines over one set of variables:         *)
(*   - ReshardingTaskSpec: the destination-tile -> source-tile-slice map   *)
(*     (generate_src_dst_map / _look_up_dst_tile_from_src);                *)
(*   - CrossMeshCommunicator: the load-balanced sender assignment;         *)
(*   - CollectiveGroup: the device -> rank tables and the group lifecycle; *)
(*   - SymbolicReshardingTask: the compiled send / receive task lists and  *)
(*     the task ids they are registered under.                            *)
(*                                                                         *)
(* Conventions: tensor axes are 1..Rank (sequences are 1-based) while tile *)
(* indices, device indices, host indices and element indices are 0-based,  *)
(* as in the source.  A python slice(a, b) is the record                   *)
(* [start |-> a, stop |-> b].  None is the string "None" where the value   *)
(* is otherwise a string or a number, and the empty sequence where it is   *)
(* otherwise a list (both are falsy in python).                            *)
(***************************************************************************)
EXTENDS Integers, Sequences, FiniteSets, TLC

\* ------------------------------------------------------------------ bounds
\* Largest length of axis 1 and of axis 2 of a tensor in the tile-geometry
\* specification (axis 1 is long enough for a destination tile that starts
\* inside one source tile, covers another and ends in a third).
MaxLen == 10

MaxLen2 == 4

\* Most calls made on one object in a behaviour.
MaxCalls == 4

\* The tensors are 2-dimensional.
Axes == {1, 2}

None == "None"

\* ------------------------------------------------------------ python helpers
RECURSIVE Prod(_)
Prod(s) == IF s = <<>> THEN 1 ELSE Head(s) * Prod(Tail(s))

RECURSIVE SumSeq(_)
SumSeq(s) == IF s = <<>> THEN 0 ELSE Head(s) + SumSeq(Tail(s))

Range(s) == {s[i] : i \in DOMAIN s}

slice(a, b) == [start |-> a, stop |-> b]

\* The elements a slice selects.
SliceSet(sl) == {x \in sl.start .. (sl.stop - 1) : TRUE}

Divisors(n) == {k \in 1..n : n % k = 0}

\* ------------------------------------------------- resharding_tensor (tiles)
\* unflatten_tile_index(index, shape): row-major unflattening of a linear
\* index into per-axis coordinates.
RECURSIVE unflatten_tile_index(_, _)
unflatten_tile_index(index, shape) ==
    IF Len(shape) = 1 THEN <<index>>
    ELSE LET p   == Prod(Tail(shape))
             cur == index \div p
         IN  <<cur>> \o unflatten_tile_index(index - cur * p, Tail(shape))

\* A VirtualDistributedArray: a tensor of shape tensor_shape cut into a grid
\* of tile_shape[i] tiles along axis i, held by the devices of mesh `mesh`
\* (num_devices of them, flat indices 0 .. num_devices-1).
VirtualDistributedArray(mesh, num_devices, tensor_shape, tile_shape) ==
    [mesh |-> mesh, num_devices |-> num_devices,
     tensor_shape |-> tensor_shape, tile_shape |-> tile_shape]

NumTiles(array) == Prod(array.tile_shape)

\* Replicas of every tile: the devices not used up by the tiling.
NumReplicas(array) == array.num_devices \div NumTiles(array)

\* A device is named by its mesh and its flat index in the mesh
\* (device_strs[flat index]).
DeviceStr(mesh, flat) == <<mesh, flat>>

\* The linear (row-major) index of a tile index.
RECURSIVE FlattenIndex(_, _)
FlattenIndex(index, shape) ==
    IF Len(shape) = 1 THEN index[1]
    ELSE index[1] * Prod(Tail(shape)) + FlattenIndex(Tail(index), Tail(shape))

\* array.tiles[index]: one partition cell, its index ranges, its shape and the
\* ordered list of the devices holding a replica of it.
TileAt(array, index) ==
    LET tile_size == [i \in Axes |-> array.tensor_shape[i] \div array.tile_shape[i]]
        flat      == FlattenIndex(index, array.tile_shape)
        R         == NumReplicas(array)
    IN  [index      |-> index,
         index_flat |-> flat,
         indices    |-> [i \in Axes |-> slice(tile_size[i] * index[i],
                                               tile_size[i] * (index[i] + 1))],
         tile_shape |-> tile_size,
         replica_device_strs |->
             [r \in 1..R |-> DeviceStr(array.mesh, flat * R + (r - 1))]]

\* array.tiles.flatten(): the tiles in row-major order.
TilesFlatten(array) ==
    [f \in 1..NumTiles(array) |->
        TileAt(array, unflatten_tile_index(f - 1, array.tile_shape))]

\* TileSlice(tile, offset): a sub-rectangle of one tile.
TileSlice(tile, offset) ==
    [index |-> tile.index, index_flat |-> tile.index_flat,
     indices |-> tile.indices, tile_shape |-> tile.tile_shape,
     replica_device_strs |-> tile.replica_device_strs,
     offset |-> offset]

\* TileSlice.slice_size: the number of elements of the slice.
slice_size(ts) == Prod([i \in Axes |-> ts.offset[i].stop - ts.offset[i].start])

\* ----------------------------------------------------- ReshardingTaskSpec
\* The assertion of _look_up_dst_tile_from_src (assert not ragged): some axis
\* length is not a multiple of the source tile count.
Ragged(src_array) ==
    \E i \in Axes : src_array.tensor_shape[i] % src_array.tile_shape[i] # 0

\* RelatedTiles without the reset of a zero end offset to the tile length
\* (lines 648-649 left out).
RelatedTiles_NoEndReset(src_array, tile, i) ==
    LET tile_length      == src_array.tensor_shape[i] \div src_array.tile_shape[i]
        end_tile         == tile.indices[i].stop \div tile_length
        end_tile_offset  == tile.indices[i].stop % tile_length
    IN  [start |-> tile.indices[i].start \div tile_length,
         end   |-> IF end_tile_offset # 0 THEN end_tile + 1 ELSE end_tile,
         start_offset |-> tile.indices[i].start % tile_length,
         end_offset   |-> end_tile_offset]

\* Per axis i: the first and last (exclusive) source tile intersecting the
\* destination tile, and the offsets into the first and the last of them.
RelatedTiles(src_array, tile, i) ==
    LET tile_length      == src_array.tensor_shape[i] \div src_array.tile_shape[i]
        start_tile       == tile.indices[i].start \div tile_length
        start_tile_offset == tile.indices[i].start % tile_length
        end_tile         == tile.indices[i].stop \div tile_length
        end_tile_offset  == tile.indices[i].stop % tile_length
    IN  [start |-> start_tile,
         end   |-> IF end_tile_offset # 0 THEN end_tile + 1 ELSE end_tile,
         start_offset |-> start_tile_offset,
         end_offset   |-> IF end_tile_offset = 0 THEN tile_length
                          ELSE end_tile_offset]

\* The body of the loop over tileslice_index: the source tile touched, the
\* slice of it to extract (offsets) and its placement in the destination
\* tile (indices), by the four cases of lines 676-701.
LookUpOne(src_array, tile, tileslice_index) ==
    LET related  == [i \in Axes |-> RelatedTiles(src_array, tile, i)]
        tile_index_relative ==
            unflatten_tile_index(tileslice_index,
                [i \in Axes |-> related[i].end - related[i].start])
        tile_index_absolute ==
            [i \in Axes |-> related[i].start + tile_index_relative[i]]
        src_tile == TileAt(src_array, tile_index_absolute)
        one(i) ==
            LET r      == tile_index_absolute[i]
                start  == related[i].start
                end    == related[i].end
                tile_length_on_this_dim == src_tile.tile_shape[i]
            IN  IF r = start /\ r = end - 1
                THEN [offset |-> slice(related[i].start_offset,
                                       related[i].end_offset),
                      index  |-> slice(0, tile.tile_shape[i])]
                ELSE IF r = start
                THEN [offset |-> slice(related[i].start_offset,
                                       tile_length_on_this_dim),
                      index  |-> slice(0, tile_length_on_this_dim
                                          - related[i].start_offset)]
                ELSE IF r = end - 1
                THEN [offset |-> slice(0, related[i].end_offset),
                      index  |-> slice(tile.tile_shape[i] - related[i].end_offset,
                                       tile.tile_shape[i])]
                ELSE LET left_in_dst_tile ==
                             tile_length_on_this_dim - related[i].start_offset
                             + (tile_index_relative[i] - 1) * tile_length_on_this_dim
                     IN  [offset |-> slice(0, tile_length_on_this_dim),
                          index  |-> slice(left_in_dst_tile,
                                           left_in_dst_tile + tile_length_on_this_dim)]
    IN  [tileslice |-> TileSlice(src_tile, [i \in Axes |-> one(i).offset]),
         indices   |-> [i \in Axes |-> one(i).index]]

\* _look_up_dst_tile_from_src(tile): the source tile-slices of one destination
\* tile and their placements, in tileslice_index order.
look_up_dst_tile_from_src(src_array, tile) ==
    LET related == [i \in Axes |-> RelatedTiles(src_array, tile, i)]
        num_src_tileslices ==
            Prod([i \in Axes |-> related[i].end - related[i].start])
        each == [k \in 1..num_src_tileslices |-> LookUpOne(src_array, tile, k - 1)]
    IN  [src_tile_slices     |-> [k \in 1..num_src_tileslices |-> each[k].tileslice],
         indices_in_dst_tile |-> [k \in 1..num_src_tileslices |-> each[k].indices]]

\* generate_src_dst_map going through the destination tiles in reverse order.
generate_src_dst_map_Reversed(src_array, dst_array) ==
    LET tiles == TilesFlatten(dst_array)
    IN  [t \in 1..Len(tiles) |->
            LET tile == tiles[Len(tiles) + 1 - t]
                found == look_up_dst_tile_from_src(src_array, tile)
            IN  [dst_tile            |-> tile,
                 src_tile_slices     |-> found.src_tile_slices,
                 indices_in_dst_tile |-> found.indices_in_dst_tile]]

\* generate_src_dst_map(): one (dst_tile, src_tile_slices, indices_in_dst_tile)
\* entry per destination tile, in dst.tiles.flatten() order.
generate_src_dst_map(src_array, dst_array) ==
    LET tiles == TilesFlatten(dst_array)
    IN  [t \in 1..Len(tiles) |->
            LET found == look_up_dst_tile_from_src(src_array, tiles[t])
            IN  [dst_tile            |-> tiles[t],
                 src_tile_slices     |-> found.src_tile_slices,
                 indices_in_dst_tile |-> found.indices_in_dst_tile]]

\* ReshardingStrategy(per_spec_plans, is_local_allgather); _strategy = None is
\* the record with is_set = FALSE.
ReshardingStrategy(per_spec_plans, is_local_allgather) ==
    [is_set |-> TRUE, per_spec_plans |-> per_spec_plans,
     is_local_allgather |-> is_local_allgather]

NoStrategy == [is_set |-> FALSE, per_spec_plans |-> <<>>,
               is_local_allgather |-> FALSE]

\* ReshardingTaskSpec(src_array, dst_array, allgather_slice=None).
ReshardingTaskSpec(src_array, dst_array) ==
    [src |-> src_array, dst |-> dst_array,
     dst_tile_to_src_tiles_map |-> <<>>,
     strategy |-> NoStrategy,
     allgather_slice |-> <<>>]

\* ------------------------------------------------------------------ state
VARIABLES
    task_spec,          \* a ReshardingTaskSpec read on its own
    raised,             \* the error the last call raised, or None
    meshes,             \* schedule.meshes: mesh index -> mesh
    resharding_specs,   \* CrossMeshCommunicator.resharding_specs[i][j]: the
                        \* task specs of mesh pair (i, j), in insertion order
    sender_loads,       \* CrossMeshCommunicator._sender_loads
    receiver_loads,     \* CrossMeshCommunicator._receiver_loads
    cursor,             \* position of the strategy generation loops
    per_spec_plans,     \* plans of the finished tiles of the current spec
    per_spec_plan,      \* plan of the current destination tile
    collective_group,   \* the CollectiveGroup of the two meshes
    worker_groups,      \* the workers on which the group is initialised
    info_actor,         \* whether the named actor "info_<group name>" exists
    last_call,          \* the entry point called last
    calls,              \* number of entry-point calls made
    task,               \* the SymbolicReshardingTask compiled last
    compiled,           \* number of task specs that have a compiled task
    resharding_task_counter,  \* the module's counter, as <<high, low>> limbs
    registered,         \* the task lists put on the workers, in put order
    earlier_uuids,      \* ids 1 .. earlier_uuids were registered before
    arrays,             \* the DistributedArrays: the input, then the results
    buffer_data,        \* buffer uuid -> the elements the buffer holds
    exec,               \* the do / do_prepared call made last
    outstanding,        \* the remote requests issued and not yet completed
    issued,             \* all remote requests issued, in issue order
    args,               \* the arguments of the function called last
    result              \* what that call returned

geoVars == <<task_spec, raised>>

commVars == <<meshes, resharding_specs, sender_loads, receiver_loads,
              cursor, per_spec_plans, per_spec_plan>>

groupVars == <<collective_group, worker_groups, info_actor, last_call, calls>>

taskVars == <<task, compiled, resharding_task_counter, registered, earlier_uuids>>

execVars == <<arrays, buffer_data, exec, outstanding, issued>>

callVars == <<args, result>>

vars == <<geoVars, commVars, groupVars, taskVars, execVars, callVars>>

\* The values of the variables of a component that a specification leaves out.
NoTaskSpec ==
    ReshardingTaskSpec(VirtualDistributedArray(0, 1, <<1, 1>>, <<1, 1>>),
                       VirtualDistributedArray(1, 1, <<1, 1>>, <<1, 1>>))

IdleGeo == task_spec = NoTaskSpec /\ raised = None

IdleComm ==
    /\ meshes = <<>>
    /\ resharding_specs = <<>>
    /\ sender_loads = <<>>
    /\ receiver_loads = <<>>
    /\ cursor = <<>>
    /\ per_spec_plans = <<>>
    /\ per_spec_plan = <<>>

\* No CollectiveGroup object: none constructed yet, or __init__ raised.
NoGroup ==
    [constructed |-> FALSE, group_name |-> <<>>, src_mesh |-> 0, dst_mesh |-> 0,
     device_str_to_rank_map |-> <<>>, device_str_to_mesh_worker_map |-> <<>>,
     device_str_to_host_id_map |-> <<>>, device_str_to_device_id_map |-> <<>>,
     mesh_workers |-> <<>>, worker_to_rank_map |-> <<>>]

IdleGroup ==
    /\ collective_group = NoGroup
    /\ worker_groups = {}
    /\ info_actor = FALSE
    /\ last_call = None
    /\ calls = 0

\* No SymbolicReshardingTask object.
NoTask ==
    [compiled |-> FALSE, key |-> <<>>,
     sender_tasks |-> <<>>, receiver_tasks |-> <<>>, allgather_tasks |-> <<>>,
     sender_uuid_plan |-> <<>>, receiver_uuid_plan |-> <<>>,
     send_worker_task_ids |-> <<>>, recv_worker_task_ids |-> <<>>,
     allgather_worker_task_ids |-> <<>>]

IdleTask ==
    /\ task = NoTask
    /\ compiled = 0
    /\ resharding_task_counter = <<0, 0>>
    /\ registered = <<>>
    /\ earlier_uuids = <<0, 0>>

\* No do / do_prepared call yet.
NoExec ==
    [call |-> None, profiling |-> FALSE, returned |-> FALSE, key |-> <<>>,
     src_array |-> <<>>, send_buf_uuids |-> <<>>, recv_buf_uuids |-> <<>>,
     results |-> {}]

IdleExec ==
    /\ arrays = <<>>
    /\ buffer_data = <<>>
    /\ exec = NoExec
    /\ outstanding = {}
    /\ issued = <<>>

IdleCall ==
    /\ args = <<>>
    /\ result = <<>>

\* --------------------------------------------- tile-geometry specification
\* The (tensor shape, source tiling, destination tiling) inputs: every axis
\* length up to MaxLen, every source tile count (dividing the axis or not),
\* every destination tile count dividing the axis.
GeoArrays ==
    {<<VirtualDistributedArray(0, s1 * s2, <<d1, d2>>, <<s1, s2>>),
       VirtualDistributedArray(1, t1 * t2, <<d1, d2>>, <<t1, t2>>)>> :
        <<d1, d2, s1, s2, t1, t2>> \in
            {c \in (1..MaxLen) \X (1..MaxLen2) \X (1..MaxLen) \X (1..MaxLen2)
                   \X (1..MaxLen) \X (1..MaxLen2) :
                /\ c[3] <= c[1] /\ c[4] <= c[2]
                /\ c[5] \in Divisors(c[1]) /\ c[6] \in Divisors(c[2])}}

InitGeo ==
    /\ \E pair \in GeoArrays : task_spec = ReshardingTaskSpec(pair[1], pair[2])
    /\ raised = None
    /\ IdleComm
    /\ IdleGroup
    /\ IdleTask
    /\ IdleExec
    /\ IdleCall

\* What a read of the property does: the error raised, the value returned,
\* the spec afterwards, and whether generate_src_dst_map was called.
MapRead(raise, value, spec, generated) ==
    [raised |-> raise, value |-> value, spec |-> spec, generated |-> generated]

\* The property without its cache: every read generates the map.
dst_tile_to_src_tiles_map_NoCache(spec) ==
    IF Ragged(spec.src)
    THEN MapRead("AssertionError", <<>>, spec, TRUE)
    ELSE MapRead(None, generate_src_dst_map(spec.src, spec.dst),
                 [spec EXCEPT !.dst_tile_to_src_tiles_map =
                     generate_src_dst_map(spec.src, spec.dst)], TRUE)

\* The property, were the tiles met before the failure kept in the cache.
dst_tile_to_src_tiles_map_CachePartial(spec) ==
    IF spec.dst_tile_to_src_tiles_map # <<>>
    THEN MapRead(None, spec.dst_tile_to_src_tiles_map, spec, FALSE)
    ELSE IF Ragged(spec.src)
    THEN MapRead("AssertionError", <<>>,
                 [spec EXCEPT !.dst_tile_to_src_tiles_map =
                     <<[dst_tile |-> TilesFlatten(spec.dst)[1],
                        src_tile_slices |-> <<>>,
                        indices_in_dst_tile |-> <<>>]>>], TRUE)
    ELSE dst_tile_to_src_tiles_map_NoCache(spec)

\* The property dst_tile_to_src_tiles_map: generate the map when the cache
\* is falsy (None, kept as the empty list), store and return it; return the
\* cache otherwise.  The assertion on a ragged source partitioning is raised
\* out of generate_src_dst_map, before the assignment to the cache.
dst_tile_to_src_tiles_map(spec) ==
    IF spec.dst_tile_to_src_tiles_map # <<>>
    THEN MapRead(None, spec.dst_tile_to_src_tiles_map, spec, FALSE)
    ELSE IF Ragged(spec.src)
    THEN MapRead("AssertionError", <<>>, spec, TRUE)
    ELSE MapRead(None, generate_src_dst_map(spec.src, spec.dst),
                 [spec EXCEPT !.dst_tile_to_src_tiles_map =
                     generate_src_dst_map(spec.src, spec.dst)], TRUE)

\* A read of the property on the task spec; args lists the reads made.
ReadDstTileToSrcTilesMap ==
    /\ Len(args) < MaxCalls
    /\ \E r \in {dst_tile_to_src_tiles_map(task_spec)} :
          /\ task_spec' = r.spec
          /\ raised' = r.raised
          /\ result' = r.value
          /\ args' = Append(args, [call |-> "dst_tile_to_src_tiles_map",
                                   generated |-> r.generated,
                                   raised |-> r.raised])
    /\ UNCHANGED <<commVars, groupVars, taskVars, execVars>>

NextGeo == ReadDstTileToSrcTilesMap

SpecGeo == InitGeo /\ [][NextGeo]_vars

\* ------------------------------------------------------- claims: geometry
\* The points of a box given by one slice per axis.
Box(indices) == SliceSet(indices[1]) \X SliceSet(indices[2])

MapEntries == task_spec.dst_tile_to_src_tiles_map

\* C1: for every destination tile T of the computed map, the destination
\* placements (indices_in_dst_tile) of T's source tile-slices are pairwise
\* disjoint and their union is T's whole local index range on every axis.
C1_PlacementsTileDstTile ==
    \A t \in DOMAIN MapEntries :
        LET e == MapEntries[t]
            n == Len(e.indices_in_dst_tile)
        IN  /\ n = Len(e.src_tile_slices)
            /\ \A k, l \in 1..n :
                   k # l => Box(e.indices_in_dst_tile[k])
                            \cap Box(e.indices_in_dst_tile[l]) = {}
            /\ UNION {Box(e.indices_in_dst_tile[k]) : k \in 1..n}
                 = Box([i \in Axes |-> slice(0, e.dst_tile.tile_shape[i])])

\* C1 witness: a computed map with a destination tile fed by at least six
\* source tile-slices, three of them along axis 1 starting inside a source
\* tile (first, interior and last case all taken).
C1_Witness ==
    \E t \in DOMAIN MapEntries :
        LET e == MapEntries[t]
        IN  /\ Len(e.src_tile_slices) >= 6
            /\ e.src_tile_slices[1].offset[1].start > 0
            /\ \E k \in DOMAIN e.src_tile_slices :
                   /\ e.indices_in_dst_tile[k][1].start > 0
                   /\ e.indices_in_dst_tile[k][1].stop < e.dst_tile.tile_shape[1]

\* C2: for every destination tile T and every source tile-slice k of it, the
\* region the slice reads (source tile's global start plus the slice offset)
\* is the region its placement writes (T's global start plus placement k),
\* on every axis, and the slice lies inside its source tile.
C2_ReadRegionIsWrittenRegion ==
    \A t \in DOMAIN MapEntries :
        LET e == MapEntries[t]
        IN  \A k \in DOMAIN e.src_tile_slices : \A i \in Axes :
                LET ts == e.src_tile_slices[k]
                    pl == e.indices_in_dst_tile[k][i]
                IN  /\ 0 <= ts.offset[i].start
                    /\ ts.offset[i].start < ts.offset[i].stop
                    /\ ts.offset[i].stop <= ts.tile_shape[i]
                    /\ ts.indices[i].start + ts.offset[i].start
                         = e.dst_tile.indices[i].start + pl.start
                    /\ ts.indices[i].start + ts.offset[i].stop
                         = e.dst_tile.indices[i].start + pl.stop

\* C2 witness: a computed map in which a destination tile that does not start
\* at the origin reads a slice at a non-zero offset of a source tile that
\* does not start at the origin either.
C2_Witness ==
    \E t \in DOMAIN MapEntries :
        LET e == MapEntries[t]
        IN  \E k \in DOMAIN e.src_tile_slices : \A i \in Axes :
                /\ e.dst_tile.indices[i].start > 0
                /\ e.src_tile_slices[k].indices[i].start > 0
                /\ e.src_tile_slices[k].offset[i].start > 0
                /\ e.indices_in_dst_tile[k][i].start = 0


\* ------------------------------------------------- CrossMeshCommunicator
\* A device mesh: num_hosts hosts (one worker each) of num_devices_per_host
\* devices; device_strs lists the devices host by host.
Mesh(num_hosts, num_devices_per_host) ==
    [num_hosts |-> num_hosts, num_devices_per_host |-> num_devices_per_host]

num_devices(mesh) == mesh.num_hosts * mesh.num_devices_per_host

\* mesh.device_strs of the mesh with index m.
device_strs(m, mesh) ==
    [f \in 1..num_devices(mesh) |-> DeviceStr(m, f - 1)]

MeshIndices == DOMAIN meshes

AllDevices ==
    UNION {Range(device_strs(m, meshes[m])) : m \in MeshIndices}

\* The entries of the plan array np.empty(...) that are not assigned yet.
NoDevice == <<>>

\* task_spec_iter() followed by the loop over var_spec_map.items(): the keys
\* (i, j, position) of all task specs, pairs (i, j) in row-major order and
\* empty pairs skipped.
RECURSIVE SpecKeysFrom(_, _)
SpecKeysFrom(i, j) ==
    IF i \notin MeshIndices THEN <<>>
    ELSE IF j \notin MeshIndices THEN SpecKeysFrom(i + 1, 0)
    ELSE [v \in 1..Len(resharding_specs[i][j]) |-> <<i, j, v>>]
         \o SpecKeysFrom(i, j + 1)

\* The iteration were it to stop before the last task spec.
task_spec_iter_SkipLast ==
    SubSeq(SpecKeysFrom(0, 0), 1, Len(SpecKeysFrom(0, 0)) - 1)

task_spec_iter == SpecKeysFrom(0, 0)

SpecAt(key) == resharding_specs[key[1]][key[2]][key[3]]

\* spec.dst_tile_to_src_tiles_map as read by the strategy generator: the
\* cached map, computed on the first read.
MapOf(spec) ==
    IF spec.dst_tile_to_src_tiles_map = <<>>
    THEN generate_src_dst_map(spec.src, spec.dst)
    ELSE spec.dst_tile_to_src_tiles_map

\* A sender choice that ignores the loads: always the first replica holder.
MinLoadSender_FirstHolder(replica_device_strs, loads, best) ==
    Head(replica_device_strs)

\* min(loads, key=loads.get) taking the last of the minimal senders instead
\* of the first.
RECURSIVE MinLoadSender_LastMin(_, _, _)
MinLoadSender_LastMin(replica_device_strs, loads, best) ==
    IF replica_device_strs = <<>> THEN best
    ELSE LET sender == Head(replica_device_strs)
         IN  MinLoadSender_LastMin(Tail(replica_device_strs), loads,
                IF best = NoDevice \/ loads[sender] <= loads[best]
                THEN sender ELSE best)

\* min(loads, key=loads.get) over the dict built from
\* src_tileslice.replica_device_strs: the senders are visited in replica
\* order and a later one replaces the best only with a strictly smaller load.
RECURSIVE MinLoadSender(_, _, _)
MinLoadSender(replica_device_strs, loads, best) ==
    IF replica_device_strs = <<>> THEN best
    ELSE LET sender == Head(replica_device_strs)
         IN  MinLoadSender(Tail(replica_device_strs), loads,
                IF best = NoDevice \/ loads[sender] < loads[best]
                THEN sender ELSE best)

\* The loads a new task spec starts from, were they reset for every spec.
LoadsForNextSpec_Reset(loads) == [d \in DOMAIN loads |-> 0]

\* The loads a new task spec starts from: those the earlier specs left.
LoadsForNextSpec(loads) == loads

\* np.empty((len(dst_tile.replica_device_strs), len(src_tileslices))).
EmptyPlan(entry) ==
    [r \in 1..Len(entry.dst_tile.replica_device_strs) |->
        [k \in 1..Len(entry.src_tile_slices) |-> NoDevice]]

StartCursor == [spec |-> 1, tile |-> 1, receiver |-> 1, slice |-> 1]

\* The tensors and tilings of the load specification: a 4 x 1 tensor, every
\* tile grid of it whose tiles share out the mesh's devices evenly.
LoadShape == <<4, 1>>

ArraysOn(m) ==
    {VirtualDistributedArray(m, num_devices(meshes[m]), LoadShape, <<g1, g2>>) :
        <<g1, g2>> \in {g \in Divisors(LoadShape[1]) \X Divisors(LoadShape[2]) :
                           num_devices(meshes[m]) % (g[1] * g[2]) = 0}}

\* The task specs mesh pair (i, j) can get: none for i = j.
SpecsBetween(i, j) ==
    IF i = j THEN {}
    ELSE {ReshardingTaskSpec(a, b) : a \in ArraysOn(i), b \in ArraysOn(j)}

\* Most task specs of one communicator.
MaxSpecs == 2

\* CrossMeshCommunicator.__init__ up to the strategy loop, for the meshes of
\* the schedule: the task specs are built, none with a map or a strategy
\* yet, and the loads of every device of every mesh are 0.
InitCommunicator ==
    /\ \E n01 \in 0..MaxSpecs : \E n10 \in 0..(MaxSpecs - n01) :
          \E rs01 \in [1..n01 -> SpecsBetween(0, 1)] :
             \E rs10 \in [1..n10 -> SpecsBetween(1, 0)] :
                resharding_specs =
                    [i \in 0..1 |-> [j \in 0..1 |->
                        IF i = 0 /\ j = 1 THEN rs01
                        ELSE IF i = 1 /\ j = 0 THEN rs10
                        ELSE <<>>]]
    /\ sender_loads = [d \in AllDevices |-> 0]
    /\ receiver_loads = [d \in AllDevices |-> 0]
    /\ cursor = StartCursor
    /\ per_spec_plans = <<>>
    /\ per_spec_plan = <<>>

\* A communicator between a mesh of 1 host and a mesh of 2 hosts, 2 devices
\* per host each.
InitLoads ==
    /\ meshes = [m \in 0..1 |-> IF m = 0 THEN Mesh(1, 2) ELSE Mesh(2, 2)]
    /\ InitCommunicator
    /\ IdleGeo
    /\ IdleGroup
    /\ IdleTask
    /\ IdleExec
    /\ IdleCall

\* One pass of the innermost loop of
\* _generate_send_recv_resharding_strategy_by_loads for the task spec, the
\* destination tile, the receiver and the source tile-slice the cursor is
\* at; with the last pass of a spec, the strategy is set on the spec
\* (set_resharding_strategy) and the next spec begins.  (The values read
\* several times are bound once, as elements of singleton sets.)
AssignStep ==
    /\ cursor # <<>>
    /\ cursor.spec <= Len(task_spec_iter)
    /\ \E key \in {task_spec_iter[cursor.spec]} :
       \E spec \in {SpecAt(key)} :
       \E map \in {MapOf(spec)} :
       \E entry \in {map[cursor.tile]} :
       \E receiver \in {entry.dst_tile.replica_device_strs[cursor.receiver]} :
       \E src_tileslice \in {entry.src_tile_slices[cursor.slice]} :
       \E sender \in {MinLoadSender(src_tileslice.replica_device_strs,
                                    sender_loads, NoDevice)} :
       \E plan \in {[(IF per_spec_plan = <<>> THEN EmptyPlan(entry)
                      ELSE per_spec_plan)
                        EXCEPT ![cursor.receiver][cursor.slice] = sender]} :
       LET new_sender_loads ==
               [sender_loads EXCEPT ![sender] = @ + slice_size(src_tileslice)]
           new_receiver_loads ==
               [receiver_loads EXCEPT ![receiver] = @ + slice_size(src_tileslice)]
           last_slice    == cursor.slice = Len(entry.src_tile_slices)
           last_receiver == cursor.receiver
                              = Len(entry.dst_tile.replica_device_strs)
           last_tile     == cursor.tile = Len(map)
           tile_done     == last_slice /\ last_receiver
           spec_done     == tile_done /\ last_tile
           plans         == IF tile_done THEN Append(per_spec_plans, plan)
                            ELSE per_spec_plans
       IN  /\ sender_loads' = IF spec_done THEN LoadsForNextSpec(new_sender_loads)
                              ELSE new_sender_loads
           /\ receiver_loads' = IF spec_done
                                THEN LoadsForNextSpec(new_receiver_loads)
                                ELSE new_receiver_loads
           /\ per_spec_plan' = IF tile_done THEN <<>> ELSE plan
           /\ per_spec_plans' = IF spec_done THEN <<>> ELSE plans
           /\ resharding_specs' =
                 [resharding_specs EXCEPT ![key[1]][key[2]][key[3]] =
                     [spec EXCEPT
                        !.dst_tile_to_src_tiles_map = map,
                        !.strategy =
                            IF spec_done
                            THEN ReshardingStrategy(plans,
                                                    spec.allgather_slice # <<>>)
                            ELSE @]]
           /\ cursor' =
                 IF spec_done THEN [StartCursor EXCEPT !.spec = cursor.spec + 1]
                 ELSE IF tile_done
                 THEN [cursor EXCEPT !.tile = @ + 1, !.receiver = 1, !.slice = 1]
                 ELSE IF last_slice
                 THEN [cursor EXCEPT !.receiver = @ + 1, !.slice = 1]
                 ELSE [cursor EXCEPT !.slice = @ + 1]
    /\ meshes' = meshes
    /\ UNCHANGED <<geoVars, groupVars, taskVars, execVars, callVars>>

NextLoads == AssignStep

SpecLoads == InitLoads /\ [][NextLoads]_vars

\* ---------------------------------------------------------- claims: loads
\* The (receiver, slice) pair the cursor is at, while a spec is in progress.
CurrentEntry == MapOf(SpecAt(task_spec_iter[cursor.spec]))[cursor.tile]

CurrentSlice == CurrentEntry.src_tile_slices[cursor.slice]

CurrentReceiver == CurrentEntry.dst_tile.replica_device_strs[cursor.receiver]

\* The sender written for the cursor's pair by the step leaving this state:
\* in the plan of the tile, of the spec, or in the strategy set on the spec.
ChosenSender ==
    LET key == task_spec_iter[cursor.spec]
    IN  IF cursor'.spec # cursor.spec
        THEN resharding_specs'[key[1]][key[2]][key[3]].strategy
                .per_spec_plans[cursor.tile][cursor.receiver][cursor.slice]
        ELSE IF cursor'.tile # cursor.tile
        THEN per_spec_plans'[cursor.tile][cursor.receiver][cursor.slice]
        ELSE per_spec_plan'[cursor.receiver][cursor.slice]

\* C4: for every (destination-tile replica, source tile-slice) pair the
\* chosen sender is a replica holder of the slice whose current send load is
\* minimal among the holders, the first such holder in replica order on a
\* tie; the slice's size is added to that sender's send load and to the
\* receiver's receive load in the same step, before the next pair.
C4_SenderIsFirstMinLoadHolder ==
    [][ LET holders == CurrentSlice.replica_device_strs
            size    == slice_size(CurrentSlice)
            chosen  == ChosenSender
        IN  /\ \E a \in DOMAIN holders :
                  /\ holders[a] = chosen
                  /\ \A b \in DOMAIN holders :
                        /\ sender_loads[chosen] <= sender_loads[holders[b]]
                        /\ b < a => sender_loads[holders[b]] > sender_loads[chosen]
            /\ sender_loads' = [sender_loads EXCEPT ![chosen] = @ + size]
            /\ receiver_loads' =
                  [receiver_loads EXCEPT ![CurrentReceiver] = @ + size] ]_vars

\* C4 witness: in the plan of one destination tile, two replicas of the tile
\* got the same slice from two different senders (a tie went to the first
\* holder, then the lighter second holder was chosen).
C4_Witness ==
    /\ per_spec_plan # <<>>
    /\ \E r1, r2 \in DOMAIN per_spec_plan :
          /\ per_spec_plan[r1][1] # NoDevice
          /\ per_spec_plan[r2][1] # NoDevice
          /\ per_spec_plan[r1][1] # per_spec_plan[r2][1]

\* The (spec, tile, slice) positions for which some receiver has been
\* assigned a sender so far, n being a position of task_spec_iter.
AssignedSlicesOf(n) ==
    LET map == SpecAt(task_spec_iter[n]).dst_tile_to_src_tiles_map
    IN  {map[t].src_tile_slices[k] :
            <<t, k>> \in {q \in UNION {{<<t, k>> : k \in DOMAIN map[t].src_tile_slices} :
                                        t \in DOMAIN map} :
                \/ n < cursor.spec
                \/ q[1] < cursor.tile
                \/ q[1] = cursor.tile /\ cursor.receiver > 1
                \/ q[1] = cursor.tile /\ q[2] < cursor.slice}}

\* The (sender set, slice size) kinds of the assignments made so far.
AssignedKinds ==
    {<<Range(ts.replica_device_strs), slice_size(ts)>> :
        ts \in UNION {AssignedSlicesOf(n) :
                        n \in {m \in 1..Len(task_spec_iter) : m <= cursor.spec}}}

\* C5: from a fresh communicator, when all assignments made so far drew from
\* the same set of sender replicas with the same slice size, the largest
\* send load among those senders minus the smallest is at most that size.
C5_EqualSlicesStayBalanced ==
    \A kind \in AssignedKinds :
        AssignedKinds = {kind} =>
            \A d1, d2 \in kind[1] :
                sender_loads[d1] - sender_loads[d2] <= kind[2]

\* C5 witness: three or more assignments, all from one set of two or more
\* senders with one slice size, have left the senders with unequal loads.
C5_Witness ==
    /\ \E kind \in AssignedKinds :
          /\ AssignedKinds = {kind}
          /\ Cardinality(kind[1]) >= 2
          /\ \E d \in kind[1] : sender_loads[d] >= 2 * kind[2]
          /\ \E d1, d2 \in kind[1] : sender_loads[d1] - sender_loads[d2] = kind[2]

\* C6: the send load and the receive load of every device never decrease,
\* across every assignment step and from one task spec to the next.
C6_LoadsNeverDecrease ==
    [][ \A d \in AllDevices :
            /\ sender_loads'[d] >= sender_loads[d]
            /\ receiver_loads'[d] >= receiver_loads[d] ]_vars

\* C6 witness: the second task spec is being processed and devices carry
\* the loads of the first.
C6_Witness ==
    /\ cursor.spec = 2
    /\ cursor.spec <= Len(task_spec_iter)
    /\ cursor.tile = 1 /\ cursor.receiver = 1 /\ cursor.slice = 1
    /\ \E d \in AllDevices : sender_loads[d] > 0
    /\ \E d \in AllDevices : receiver_loads[d] > 0


\* ------------------------------------------------------ CollectiveGroup
MaxHosts == 2
MaxDevPerHost == 2

\* mesh.workers: one worker per host, in host order.
Worker(m, host) == [mesh |-> m, host |-> host]

workers(m, mesh) == [h \in 1..mesh.num_hosts |-> Worker(m, h - 1)]

\* The passes (i, j) of a loop "for i over hosts: for j in range(devices per
\* host)" of CollectiveGroup.__init__, numbered in execution order.
LoopPasses(mesh) == 0 .. (num_devices(mesh) - 1)

PassHost(mesh, p) == p \div mesh.num_devices_per_host

PassLocal(mesh, p) == p % mesh.num_devices_per_host

\* The index into src_mesh.device_strs of pass (i, j) of the first loop.
SrcDeviceIndex(src_mesh, i, j) == i * src_mesh.num_devices_per_host + j

\* The index into dst_mesh.device_strs of pass (i, j) of the second loop.
DstDeviceIndex(src_mesh, dst_mesh, i, j) ==
    i * src_mesh.num_devices_per_host + j

\* The dictionary writes of the first loop, tagged with their order.
SrcWrites(s, src_mesh) ==
    {[order |-> p,
      device_str |-> device_strs(s, src_mesh)
          [SrcDeviceIndex(src_mesh, PassHost(src_mesh, p),
                          PassLocal(src_mesh, p)) + 1],
      rank |-> <<PassHost(src_mesh, p), PassLocal(src_mesh, p)>>,
      mesh_worker |-> workers(s, src_mesh)[PassHost(src_mesh, p) + 1],
      host_id |-> PassHost(src_mesh, p),
      device_id |-> PassLocal(src_mesh, p)] : p \in LoopPasses(src_mesh)}

\* The passes of the second loop whose index is past the end of
\* dst_mesh.device_strs: the list lookup raises IndexError there.
DstIndexErrors(src_mesh, dst_mesh) ==
    {p \in LoopPasses(dst_mesh) :
        DstDeviceIndex(src_mesh, dst_mesh, PassHost(dst_mesh, p),
                       PassLocal(dst_mesh, p)) >= num_devices(dst_mesh)}

\* The dictionary writes of the second loop; they come after the first loop's.
DstWrites(src_mesh, t, dst_mesh) ==
    {[order |-> num_devices(src_mesh) + p,
      device_str |-> device_strs(t, dst_mesh)
          [DstDeviceIndex(src_mesh, dst_mesh, PassHost(dst_mesh, p),
                          PassLocal(dst_mesh, p)) + 1],
      rank |-> <<PassHost(dst_mesh, p) + src_mesh.num_hosts,
                 PassLocal(dst_mesh, p)>>,
      mesh_worker |-> workers(t, dst_mesh)[PassHost(dst_mesh, p) + 1],
      host_id |-> PassHost(dst_mesh, p),
      device_id |-> PassLocal(dst_mesh, p)] :
        p \in LoopPasses(dst_mesh) \ DstIndexErrors(src_mesh, dst_mesh)}

\* A dictionary after a set of ordered writes: the keys written, each with
\* the value of its last write.
LastWrite(writes, key) ==
    CHOOSE w \in writes :
        /\ w.device_str = key
        /\ \A v \in writes : v.device_str = key => v.order <= w.order

\* CollectiveGroup(device_strs, src_mesh, dst_mesh) for the meshes with
\* indices s and t, when __init__ returns.  The group name, a join of the
\* device strs, is kept as the list it is joined from.
CollectiveGroup(s, t) ==
    LET src_mesh == meshes[s]
        dst_mesh == meshes[t]
        writes == SrcWrites(s, src_mesh) \cup DstWrites(src_mesh, t, dst_mesh)
        keys == {w.device_str : w \in writes}
        mesh_workers == workers(s, src_mesh) \o workers(t, dst_mesh)
    IN  [constructed |-> TRUE,
         group_name |-> device_strs(s, src_mesh) \o device_strs(t, dst_mesh),
         src_mesh |-> s,
         dst_mesh |-> t,
         device_str_to_rank_map |->
             [k \in keys |-> LastWrite(writes, k).rank],
         device_str_to_mesh_worker_map |->
             [k \in keys |-> LastWrite(writes, k).mesh_worker],
         device_str_to_host_id_map |->
             [k \in keys |-> LastWrite(writes, k).host_id],
         device_str_to_device_id_map |->
             [k \in keys |-> LastWrite(writes, k).device_id],
         mesh_workers |-> mesh_workers,
         worker_to_rank_map |->
             [w \in Range(mesh_workers) |->
                 CHOOSE r \in 0..(Len(mesh_workers) - 1) :
                     mesh_workers[r + 1] = w]]

\* _destroy_info_actor swallowing nothing: a missing actor's ValueError
\* reaches the caller.
destroy_info_actor_NoCatch(exists) ==
    [info_actor |-> FALSE, raised |-> IF exists THEN None ELSE "ValueError"]

\* _destroy_info_actor(): ray.get_actor raises ValueError when no actor has
\* the name, and the handler passes; otherwise the actor is killed.
destroy_info_actor(exists) ==
    IF exists
    THEN [info_actor |-> FALSE, raised |-> None]
    ELSE [info_actor |-> exists, raised |-> None]

\* worker.destroy_collective_group(group_name) on every worker of the group:
\* a worker that does not hold the group treats the call as success.
destroy_collective_group(held, mesh_workers) == held \ Range(mesh_workers)

InitGroup ==
    /\ \E sh, dh \in 1..MaxHosts, sd, dd \in 1..MaxDevPerHost :
          meshes = [m \in 0..1 |-> IF m = 0 THEN Mesh(sh, sd) ELSE Mesh(dh, dd)]
    /\ resharding_specs = <<>>
    /\ sender_loads = <<>>
    /\ receiver_loads = <<>>
    /\ cursor = <<>>
    /\ per_spec_plans = <<>>
    /\ per_spec_plan = <<>>
    /\ IdleGeo
    /\ IdleGroup
    /\ IdleTask
    /\ IdleExec
    /\ IdleCall

\* A caller going past its remote calls whether or not they are done.
MayReturn_NoWait(profiling, results, pending) == TRUE

\* Whether a caller can go past its remote calls: ray.get(results) blocks
\* until every request of the call is done; do_prepared with profiling does
\* not call it and returns the futures at once.
MayReturn(profiling, results, pending) ==
    profiling \/ results \cap pending = {}

\* instantiate_now() has issued its requests and waits in ray.get.
Instantiating == exec.call = "instantiate_now" /\ ~exec.returned

\* The init_collective_group requests of instantiate_now, one per worker of
\* mesh_workers in list order; n tells the calls of instantiate_now apart.
InitGroupRequests(group, n) ==
    [r \in 1..Len(group.mesh_workers) |->
        [worker |-> group.mesh_workers[r],
         method |-> "init_collective_group",
         world_size |-> Len(group.mesh_workers),
         rank |-> r - 1,
         backend |-> "nccl",
         group_name |-> group.group_name,
         uuid |-> n]]

\* CollectiveGroup(device_strs, src_mesh, dst_mesh) with mesh 0 as source and
\* mesh 1 as destination.
ConstructGroup ==
    /\ calls < MaxCalls
    /\ ~Instantiating
    /\ ~collective_group.constructed
    /\ IF DstIndexErrors(meshes[0], meshes[1]) # {}
       THEN /\ raised' = "IndexError"
            /\ collective_group' = collective_group
       ELSE /\ raised' = None
            /\ collective_group' = CollectiveGroup(0, 1)
    /\ last_call' = "__init__"
    /\ calls' = calls + 1
    /\ UNCHANGED <<task_spec, commVars, worker_groups, info_actor, taskVars,
                   execVars, callVars>>

\* instantiate(): the group is declared, which creates its named actor; the
\* workers join on first use.
Instantiate ==
    /\ calls < MaxCalls
    /\ ~Instantiating
    /\ collective_group.constructed
    /\ info_actor' = TRUE
    /\ raised' = None
    /\ last_call' = "instantiate"
    /\ calls' = calls + 1
    /\ UNCHANGED <<task_spec, commVars, collective_group, worker_groups, taskVars,
                   execVars, callVars>>

\* instantiate_now() up to ray.get: init_collective_group is requested of
\* every worker of the group.
InstantiateNow ==
    /\ calls < MaxCalls
    /\ ~Instantiating
    /\ collective_group.constructed
    /\ \E reqs \in {InitGroupRequests(collective_group, calls)} :
          /\ issued' = issued \o reqs
          /\ outstanding' = outstanding \cup Range(reqs)
          /\ exec' = [NoExec EXCEPT !.call = "instantiate_now",
                                    !.results = Range(reqs)]
    /\ raised' = None
    /\ last_call' = "instantiate_now"
    /\ calls' = calls + 1
    /\ UNCHANGED <<task_spec, commVars, collective_group, worker_groups,
                   info_actor, taskVars, arrays, buffer_data, callVars>>

\* A worker runs init_collective_group: it has the group from then on.
WorkerInitGroup ==
    /\ \E req \in outstanding :
          /\ req.method = "init_collective_group"
          /\ outstanding' = outstanding \ {req}
          /\ worker_groups' = worker_groups \cup {req.worker}
    /\ UNCHANGED <<geoVars, commVars, collective_group, info_actor, last_call,
                   calls, taskVars, arrays, buffer_data, exec, issued,
                   callVars>>

\* instantiate_now() from ray.get(task_dones) to its return.
InstantiateNowReturn ==
    /\ Instantiating
    /\ MayReturn(FALSE, exec.results, outstanding)
    /\ exec' = [exec EXCEPT !.returned = TRUE]
    /\ UNCHANGED <<geoVars, commVars, groupVars, taskVars, arrays, buffer_data,
                   outstanding, issued, callVars>>

\* destroy(): the workers leave the group, then the named actor is removed.
Destroy ==
    /\ calls < MaxCalls
    /\ ~Instantiating
    /\ collective_group.constructed
    /\ worker_groups' =
          destroy_collective_group(worker_groups, collective_group.mesh_workers)
    /\ \E res \in {destroy_info_actor(info_actor)} :
          /\ info_actor' = res.info_actor
          /\ raised' = res.raised
    /\ last_call' = "destroy"
    /\ calls' = calls + 1
    /\ UNCHANGED <<task_spec, commVars, collective_group, taskVars,
                   execVars, callVars>>

NextGroup ==
    \/ ConstructGroup
    \/ Instantiate
    \/ InstantiateNow
    \/ WorkerInitGroup
    \/ InstantiateNowReturn
    \/ Destroy

SpecGroup == InitGroup /\ [][NextGroup]_vars

\* C7: once the constructor has been called on a mesh pair, the group exists
\* and maps the device at host i, local index j of the source mesh to rank
\* (i, j) and of the destination mesh to rank (source hosts + i, j), each
\* owned by the worker of its host; every device of both meshes has an
\* entry; mesh_workers lists the source workers, then the destination
\* workers, in mesh order.
C7_RanksFollowMeshOrder ==
    last_call # None =>
        /\ collective_group.constructed
        /\ DOMAIN collective_group.device_str_to_rank_map = AllDevices
        /\ DOMAIN collective_group.device_str_to_mesh_worker_map = AllDevices
        /\ \A m \in 0..1 : \A i \in 0..(meshes[m].num_hosts - 1) :
              \A j \in 0..(meshes[m].num_devices_per_host - 1) :
                 LET d == DeviceStr(m, i * meshes[m].num_devices_per_host + j)
                     base == IF m = 0 THEN 0 ELSE meshes[0].num_hosts
                 IN  /\ collective_group.device_str_to_rank_map[d]
                            = <<base + i, j>>
                     /\ collective_group.device_str_to_mesh_worker_map[d]
                            = Worker(m, i)
        /\ collective_group.mesh_workers
              = [r \in 1..(meshes[0].num_hosts + meshes[1].num_hosts) |->
                    IF r <= meshes[0].num_hosts
                    THEN Worker(0, r - 1)
                    ELSE Worker(1, r - 1 - meshes[0].num_hosts)]

\* C9: a call of destroy() raises nothing and leaves no named actor and no
\* worker in the group; on a group that is already absent (no actor, no
\* worker holding it) it changes nothing.
C9_DestroyIsIdempotent ==
    [][(calls' # calls /\ last_call' = "destroy") =>
          /\ raised' = None
          /\ ~info_actor'
          /\ worker_groups' = {}
          /\ (~info_actor /\ worker_groups = {}) =>
                /\ info_actor' = info_actor
                /\ worker_groups' = worker_groups
                /\ collective_group' = collective_group]_vars

\* destroy() has run twice in a row, the second time on an absent group.
C9_Witness ==
    /\ last_call = "destroy"
    /\ calls >= 3
    /\ collective_group.constructed
    /\ ~info_actor
    /\ worker_groups = {}
    /\ raised = None


\* ----------------------------------------------- SymbolicReshardingTask
\* The counter is below 2^60 = Limb * Limb and is kept as <<high, low>>,
\* its value being high * Limb + low.
Limb == 1073741824

\* next_resharding_task_uuid with the increment left out.
next_resharding_task_uuid_Stuck(counter) == counter

\* next_resharding_task_uuid(): (counter + 1) % (1 << 60), the new value of
\* the counter and the value returned.
next_resharding_task_uuid(counter) ==
    IF counter[2] + 1 < Limb THEN <<counter[1], counter[2] + 1>>
    ELSE IF counter[1] + 1 < Limb THEN <<counter[1] + 1, 0>>
    ELSE <<0, 0>>

\* The counter after n calls of next_resharding_task_uuid.
RECURSIVE UuidAfter(_, _)
UuidAfter(counter, n) ==
    IF n = 0 THEN counter
    ELSE next_resharding_task_uuid(UuidAfter(counter, n - 1))

\* The concatenation of a list of lists.
RECURSIVE FlattenSeq(_)
FlattenSeq(ss) ==
    IF ss = <<>> THEN <<>> ELSE Head(ss) \o FlattenSeq(Tail(ss))

\* The passes (i, replica_index) of the two outer loops of
\* _compile_send_recv_tasks, in execution order.
ReceiverPasses(map) ==
    FlattenSeq([i \in 1..Len(map) |->
        [r \in 1..Len(map[i].dst_tile.replica_device_strs) |-> <<i, r>>]])

\* The passes (i, replica_index, sender_idx) of the innermost loop, in
\* execution order.
SenderPasses(map) ==
    FlattenSeq([n \in 1..Len(ReceiverPasses(map)) |->
        LET p == ReceiverPasses(map)[n]
        IN  [k \in 1..Len(map[p[1]].src_tile_slices) |-> <<p[1], p[2], k>>]])

\* receiver of a pass: dst_tile.replica_device_strs[replica_index].
PassReceiver(map, p) == map[p[1]].dst_tile.replica_device_strs[p[2]]

\* sender of a pass: spec_plan[replica_index][src_tile_index].
PassSender(plans, p) == plans[p[1]][p[2]][p[3]]

\* _indices_in_dst_post_allgather(indices, receiver) of a task spec without
\* an allgather slice.
indices_in_dst_post_allgather(spec, indices, receiver) == indices

\* The passes at which a lookup in the group's tables or in _sender_tasks
\* raises KeyError.
CompileKeyErrors(group, map, plans, src_workers) ==
    {n \in 1..Len(SenderPasses(map)) :
        LET p == SenderPasses(map)[n]
            receiver == PassReceiver(map, p)
            sender == PassSender(plans, p)
        IN  \/ receiver \notin DOMAIN group.device_str_to_rank_map
            \/ sender \notin DOMAIN group.device_str_to_rank_map
            \/ group.device_str_to_mesh_worker_map[sender]
                   \notin Range(src_workers)}

\* The send entry of one pass: ReshardingTileSpec(offset, receiver_rank,
\* receiver_gpu_idx).  transfer records the pass that appended the entry.
SendTileSpec(group, map, p) ==
    LET rank == group.device_str_to_rank_map[PassReceiver(map, p)]
    IN  [offset |-> map[p[1]].src_tile_slices[p[3]].offset,
         rank |-> rank[1],
         gpu_idx |-> rank[2],
         transfer |-> p]

\* The receive tile-spec of one pass: ReshardingTileSpec(indices_in_dst_tile,
\* sender_rank, sender_gpu_idx).
RecvTileSpec(group, spec, map, plans, p) ==
    LET rank == group.device_str_to_rank_map[PassSender(plans, p)]
    IN  [indices |-> indices_in_dst_post_allgather(
                         spec, map[p[1]].indices_in_dst_tile[p[3]],
                         PassReceiver(map, p)),
         rank |-> rank[1],
         gpu_idx |-> rank[2],
         transfer |-> p]

\* _sender_tasks with every worker's entries in the reverse of the order the
\* loop appends them in.
CompileSenderTasks_Reversed(group, map, plans, src_workers) ==
    [w \in Range(src_workers) |->
        LET Mine(p) ==
                group.device_str_to_mesh_worker_map[PassSender(plans, p)]
                    = w
            mine == SelectSeq(SenderPasses(map), Mine)
        IN  [n \in 1..Len(mine) |->
                SendTileSpec(group, map, mine[Len(mine) + 1 - n])]]

\* _sender_tasks after _compile_send_recv_tasks: for every worker of the
\* source mesh, the send entries of the passes whose sender it owns, in pass
\* order.
CompileSenderTasks(group, map, plans, src_workers) ==
    [w \in Range(src_workers) |->
        LET Mine(p) ==
                group.device_str_to_mesh_worker_map[PassSender(plans, p)]
                    = w
            mine == SelectSeq(SenderPasses(map), Mine)
        IN  [n \in 1..Len(mine) |-> SendTileSpec(group, map, mine[n])]]

\* _receiver_tasks after _compile_send_recv_tasks: for every worker of the
\* destination mesh, one ReshardingRecvSpec(device_id, shape, dtype,
\* tile_specs) per (tile, replica) pass whose receiver it owns, in pass order.
CompileReceiverTasks(group, spec, map, plans, dst_workers) ==
    [w \in Range(dst_workers) |->
        LET Mine(p) ==
                group.device_str_to_mesh_worker_map[PassReceiver(map, p)] = w
            mine == SelectSeq(ReceiverPasses(map), Mine)
        IN  [n \in 1..Len(mine) |->
                LET p == mine[n]
                IN  [device_id |->
                         group.device_str_to_device_id_map[PassReceiver(map, p)],
                     shape |-> map[p[1]].dst_tile.tile_shape,
                     tile_specs |->
                         [k \in 1..Len(map[p[1]].src_tile_slices) |->
                             RecvTileSpec(group, spec, map, plans,
                                          <<p[1], p[2], k>>)]]]]


\* The position of a worker in a list of workers.
IndexOf(seq, x) == CHOOSE n \in 1..Len(seq) : seq[n] = x

\* The put_resharding_*_task calls of _compile, in call order: the send
\* lists of the source workers, the receive lists of the destination
\* workers, then the allgather lists of the destination workers.
PutCalls(src_workers, dst_workers) ==
    [n \in 1..Len(src_workers) |-> [worker |-> src_workers[n], kind |-> "send"]]
    \o [n \in 1..Len(dst_workers) |-> [worker |-> dst_workers[n], kind |-> "recv"]]
    \o [n \in 1..Len(dst_workers) |->
           [worker |-> dst_workers[n], kind |-> "allgather"]]

\* SymbolicReshardingTask(task_spec, collective_group, src_mesh, dst_mesh)
\* when __init__ returns, for the task spec with the given key and map, a
\* strategy without local allgather, and the counter's value at the call.
SymbolicReshardingTask(key, spec, map, group, counter) ==
    LET plans == spec.strategy.per_spec_plans
        src_workers == workers(key[1], meshes[key[1]])
        dst_workers == workers(key[2], meshes[key[2]])
    IN  [compiled |-> TRUE,
         key |-> key,
         sender_tasks |-> CompileSenderTasks(group, map, plans, src_workers),
         receiver_tasks |->
             CompileReceiverTasks(group, spec, map, plans, dst_workers),
         allgather_tasks |-> [w \in Range(dst_workers) |-> <<>>],
         sender_uuid_plan |->
             [n \in 1..Len(SenderPasses(map)) |->
                 PassSender(plans, SenderPasses(map)[n])],
         receiver_uuid_plan |->
             [n \in 1..Len(ReceiverPasses(map)) |->
                 PassReceiver(map, ReceiverPasses(map)[n])],
         send_worker_task_ids |->
             [w \in Range(src_workers) |->
                 UuidAfter(counter, IndexOf(src_workers, w))],
         recv_worker_task_ids |->
             [w \in Range(dst_workers) |->
                 UuidAfter(counter, Len(src_workers) + IndexOf(dst_workers, w))],
         allgather_worker_task_ids |->
             [w \in Range(dst_workers) |->
                 UuidAfter(counter, Len(src_workers) + Len(dst_workers)
                                    + IndexOf(dst_workers, w))]]

\* The elements of a set in the order a loop over the set visits them.
RECURSIVE SetOrder(_)
SetOrder(S) ==
    IF S = {} THEN <<>>
    ELSE LET x == CHOOSE y \in S : TRUE IN <<x>> \o SetOrder(S \ {x})

\* communicator_params with only the first tile spec of every receive task.
communicator_params_FirstTileSpec(group, receiver_tasks) ==
    {<<wt[2].tile_specs[1].rank, wt[2].tile_specs[1].gpu_idx,
       group.worker_to_rank_map[wt[1]], wt[2].device_id>> :
        wt \in UNION {{w} \X Range(receiver_tasks[w]) :
                         w \in DOMAIN receiver_tasks}}

\* communicator_params after the first loop of
\* _create_resharding_communicators: the (src_rank, src_gpu_idx, dst_rank,
\* dst_gpu_idx) of every tile spec of every receive task of every worker.
communicator_params(group, receiver_tasks) ==
    UNION {UNION {{<<t.tile_specs[k].rank, t.tile_specs[k].gpu_idx,
                    group.worker_to_rank_map[w], t.device_id>> :
                      k \in DOMAIN t.tile_specs} :
                  t \in Range(receiver_tasks[w])} :
           w \in DOMAIN receiver_tasks}

\* The remote calls of the second loop of _create_resharding_communicators,
\* in call order: per param one generate_nccl_uid on the source worker, whose
\* answer (a fresh id, here the task's number and the call's) is handed to
\* init_p2p_communicator on the source worker and, with the two ends
\* swapped, on the destination worker.
create_resharding_communicators(group, params, n) ==
    FlattenSeq([k \in 1..Len(params) |->
        LET param == params[k]
            src_worker == group.mesh_workers[param[1] + 1]
            dst_worker == group.mesh_workers[param[3] + 1]
            nccl_uid == <<n, k>>
        IN  <<[worker |-> src_worker, method |-> "generate_nccl_uid",
               my_rank |-> param[1], my_gpu_idx |-> param[2],
               peer_rank |-> param[3], peer_gpu_idx |-> param[4],
               nccl_uid |-> nccl_uid],
              [worker |-> src_worker, method |-> "init_p2p_communicator",
               my_rank |-> param[1], my_gpu_idx |-> param[2],
               peer_rank |-> param[3], peer_gpu_idx |-> param[4],
               nccl_uid |-> nccl_uid],
              [worker |-> dst_worker, method |-> "init_p2p_communicator",
               my_rank |-> param[3], my_gpu_idx |-> param[4],
               peer_rank |-> param[1], peer_gpu_idx |-> param[2],
               nccl_uid |-> nccl_uid]>>])

\* The end of SymbolicReshardingTask.__init__: with
\* global_config.eagerly_create_communicators the communicators are created,
\* otherwise no call is made.
EagerCommunicators(eagerly, group, receiver_tasks, n) ==
    [eagerly_create_communicators |-> eagerly,
     communicators |->
         IF eagerly
         THEN create_resharding_communicators(group,
                  SetOrder(communicator_params(group, receiver_tasks)), n)
         ELSE <<>>]

\* The task lists the workers hold after the put calls of one _compile.
Registered(src_workers, dst_workers, counter) ==
    [n \in 1..Len(PutCalls(src_workers, dst_workers)) |->
        [worker |-> PutCalls(src_workers, dst_workers)[n].worker,
         kind |-> PutCalls(src_workers, dst_workers)[n].kind,
         uuid |-> UuidAfter(counter, n)]]

\* The mesh pairs of the task specification: a source mesh of 1 host with 1
\* or 2 devices and a destination mesh of 2 hosts with 2 devices each.
TaskMeshes ==
    {[m \in 0..1 |-> IF m = 0 THEN Mesh(1, d) ELSE Mesh(2, 2)] : d \in 1..2}

\* A process about to build a communicator, at its start or two
\* registrations before the counter wraps.
InitTask ==
    /\ meshes \in TaskMeshes
    /\ InitCommunicator
    /\ IdleGeo
    /\ IdleGroup
    /\ task = NoTask
    /\ compiled = 0
    /\ resharding_task_counter \in {<<0, 0>>, <<Limb - 1, Limb - 3>>}
    /\ registered = <<>>
    /\ earlier_uuids = resharding_task_counter
    /\ IdleExec
    /\ IdleCall

\* The group of meshes 0 and 1 is constructed once the communicator has its
\* strategies.
EstablishGroup ==
    /\ cursor # <<>>
    /\ cursor.spec > Len(task_spec_iter)
    /\ ConstructGroup

\* SymbolicReshardingTask(...) for the next task spec in task_spec_iter
\* order, with the one group serving both directions: _compile builds the
\* send and receive lists and puts them, and the empty allgather lists, on
\* the workers.  The communicators are then created or not, as
\* global_config.eagerly_create_communicators says at the time.
CompileTask ==
    /\ cursor # <<>>
    /\ cursor.spec > Len(task_spec_iter)
    /\ collective_group.constructed
    /\ raised = None
    /\ compiled < Len(task_spec_iter)
    /\ \E key \in {task_spec_iter[compiled + 1]} :
       \E spec \in {SpecAt(key)} :
       \E map \in {MapOf(spec)} :
       \E src_workers \in {workers(key[1], meshes[key[1]])} :
       \E dst_workers \in {workers(key[2], meshes[key[2]])} :
          /\ ~spec.strategy.is_local_allgather
          /\ IF CompileKeyErrors(collective_group, map,
                                 spec.strategy.per_spec_plans, src_workers) # {}
             THEN /\ raised' = "KeyError"
                  /\ UNCHANGED taskVars
             ELSE /\ raised' = None
                  /\ \E eagerly \in BOOLEAN :
                     \E t \in {SymbolicReshardingTask(key, spec, map,
                                collective_group, resharding_task_counter)} :
                        task' = t @@ EagerCommunicators(eagerly,
                                        collective_group, t.receiver_tasks,
                                        compiled + 1)
                  /\ compiled' = compiled + 1
                  /\ resharding_task_counter' =
                        UuidAfter(resharding_task_counter,
                                  Len(PutCalls(src_workers, dst_workers)))
                  /\ registered' =
                        registered \o Registered(src_workers, dst_workers,
                                                 resharding_task_counter)
                  /\ earlier_uuids' = earlier_uuids
    /\ UNCHANGED <<task_spec, commVars, groupVars, execVars, callVars>>

NextTask ==
    \/ AssignStep
    \/ EstablishGroup
    \/ CompileTask

SpecTask == InitTask /\ [][NextTask]_vars


\* --------------------------------------------------------- claims: tasks
\* The receive tile-specs of a worker's receive tasks, flattened in list
\* order, each with the device id of its receive task.
TileSpecsOf(recv_tasks) ==
    FlattenSeq([n \in 1..Len(recv_tasks) |->
        [k \in 1..Len(recv_tasks[n].tile_specs) |->
            [device_id |-> recv_tasks[n].device_id,
             tile_spec |-> recv_tasks[n].tile_specs[k]]]])

\* The send entries of sender worker sw addressed to the rank of receiver
\* worker rw.
SendsBetween(sw, rw) ==
    LET ToReceiver(e) == e.rank = collective_group.worker_to_rank_map[rw]
    IN  SelectSeq(task.sender_tasks[sw], ToReceiver)

\* The receive tile-specs of receiver worker rw that name the rank of sender
\* worker sw.
RecvsBetween(sw, rw) ==
    LET FromSender(e) ==
            e.tile_spec.rank = collective_group.worker_to_rank_map[sw]
    IN  SelectSeq(TileSpecsOf(task.receiver_tasks[rw]), FromSender)

\* A send entry and a receive tile-spec describe the same transfer from a
\* device of sw to a device of rw: they come from the same pass, the entry
\* carries the offset of the pass's source slice and the receiving device,
\* the tile-spec the slice's place in the destination tile and the sending
\* device.
SameTransfer(send, recv, sw, rw) ==
    LET spec == SpecAt(task.key)
        p == send.transfer
        sender == PassSender(spec.strategy.per_spec_plans, p)
        receiver == PassReceiver(spec.dst_tile_to_src_tiles_map, p)
        entry == spec.dst_tile_to_src_tiles_map[p[1]]
    IN  /\ recv.tile_spec.transfer = p
        /\ send.offset = entry.src_tile_slices[p[3]].offset
        /\ recv.tile_spec.indices = entry.indices_in_dst_tile[p[3]]
        /\ sender \in Range(entry.src_tile_slices[p[3]].replica_device_strs)
        /\ collective_group.device_str_to_mesh_worker_map[sender] = sw
        /\ collective_group.device_str_to_mesh_worker_map[receiver] = rw
        /\ recv.tile_spec.gpu_idx
               = collective_group.device_str_to_rank_map[sender][2]
        /\ send.gpu_idx = collective_group.device_str_to_rank_map[receiver][2]
        /\ send.gpu_idx = recv.device_id

\* C3: in a compiled task, for every sender worker and receiver worker, the
\* send entries of the sender addressed to the receiver's rank and the
\* receive tile-specs of the receiver naming the sender's rank are equally
\* many, and the k-th of the ones and the k-th of the others describe the
\* same transfer.
C3_SendsAndRecvsPairInOrder ==
    task.compiled =>
        \A sw \in DOMAIN task.sender_tasks :
            \A rw \in DOMAIN task.receiver_tasks :
                /\ Len(SendsBetween(sw, rw)) = Len(RecvsBetween(sw, rw))
                /\ \A k \in 1..Len(SendsBetween(sw, rw)) :
                      SameTransfer(SendsBetween(sw, rw)[k],
                                   RecvsBetween(sw, rw)[k], sw, rw)

\* C3 witness: a compiled task in which a sender worker sends a receiver
\* worker three or more slices, to two of its devices.
C3_Witness ==
    /\ task.compiled
    /\ \E sw \in DOMAIN task.sender_tasks :
          \E rw \in DOMAIN task.receiver_tasks :
             /\ Len(SendsBetween(sw, rw)) >= 3
             /\ \E j, k \in 1..Len(SendsBetween(sw, rw)) :
                   SendsBetween(sw, rw)[j].gpu_idx
                       # SendsBetween(sw, rw)[k].gpu_idx

\* b is a plus one, wrapping at 2^60.
PlusOneMod(a, b) ==
    \/ a[2] < Limb - 1 /\ b = <<a[1], a[2] + 1>>
    \/ a[2] = Limb - 1 /\ a[1] < Limb - 1 /\ b = <<a[1] + 1, 0>>
    \/ a = <<Limb - 1, Limb - 1>> /\ b = <<0, 0>>

\* The id registered before the k-th registration of this run.
PreviousUuid(k) == IF k = 1 THEN earlier_uuids ELSE registered[k - 1].uuid

\* Id u is one of the ids 1 .. earlier_uuids registered before this run.
RegisteredEarlier(u) ==
    /\ u # <<0, 0>>
    /\ \/ u[1] < earlier_uuids[1]
       \/ u[1] = earlier_uuids[1] /\ u[2] <= earlier_uuids[2]

\* C10 (amended): every registered task list carries the previous id plus
\* one, wrapping at 2^60, the counter holds the last id, and the task lists
\* of one run of fewer than 2^60 registrations carry different ids.
C10_IdsFollowTheCounter ==
    /\ \A k \in 1..Len(registered) :
          PlusOneMod(PreviousUuid(k), registered[k].uuid)
    /\ resharding_task_counter = PreviousUuid(Len(registered) + 1)
    /\ \A j, k \in 1..Len(registered) :
          j # k => registered[j].uuid # registered[k].uuid

\* C10 witness: the lists of two tasks are registered and the ids wrapped
\* between them or within one of them.
C10_Witness ==
    /\ compiled >= 2
    /\ \E k \in 1..Len(registered) : registered[k].uuid = <<0, 0>>
    /\ \E k \in 1..Len(registered) : registered[k].kind = "allgather"

\* C10 (as stated): every registered task list carries the previous id plus
\* one, wrapping at 2^60, and no id is ever carried by two registered task
\* lists, those registered earlier included.
C10_NoIdIsEverReused ==
    /\ \A k \in 1..Len(registered) :
          PlusOneMod(PreviousUuid(k), registered[k].uuid)
    /\ \A j, k \in 1..Len(registered) :
          j # k => registered[j].uuid # registered[k].uuid
    /\ \A k \in 1..Len(registered) : ~RegisteredEarlier(registered[k].uuid)


\* ------------------------------------------------------- task execution
\* The positions of a buffer or tile of the given shape.
Positions(shape) == (0..(shape[1] - 1)) \X (0..(shape[2] - 1))

\* The shape of the region picked out by one slice per axis.
SliceShape(slices) == [i \in Axes |-> slices[i].stop - slices[i].start]

\* The uuid of the buffer that array number n keeps on a device.
BufferUuid(n, device_str) == <<n, device_str>>

\* A DistributedArray on mesh device_mesh with the sharding of the virtual
\* array `sharding`: one buffer per device, in flat-index order.
DistributedArray(device_mesh, sharding, remote_buffers) ==
    [device_mesh |-> device_mesh, sharding |-> sharding,
     remote_buffers |-> remote_buffers]

\* The tile of a virtual array kept by the device with the given flat index.
TileOfDevice(array, flat) ==
    TilesFlatten(array)[(flat \div NumReplicas(array)) + 1]

\* The elements of the tensor a device holds when the array is laid out by
\* its sharding: position l of the buffer holds element indices.start + l.
ShardData(array, flat) ==
    LET tile == TileOfDevice(array, flat)
    IN  [l \in Positions(tile.tile_shape) |->
            <<tile.indices[1].start + l[1], tile.indices[2].start + l[2]>>]

\* The tensor of the execution specification and the tilings of it whose
\* tiles share out a mesh's devices evenly.
ExecShape == <<4, 4>>

ExecArraysOn(m) ==
    {VirtualDistributedArray(m, num_devices(meshes[m]), ExecShape, <<g1, g2>>) :
        <<g1, g2>> \in {g \in Divisors(ExecShape[1]) \X Divisors(ExecShape[2]) :
                           num_devices(meshes[m]) % (g[1] * g[2]) = 0}}

\* The legs of a resharding between the two meshes: from mesh 0 to mesh 1,
\* from mesh 1 to mesh 0, or there and back.
Legs == {"there", "back", "both"}

\* A communicator about to generate the strategies for one variable that
\* crosses from a mesh of 2 hosts x 2 devices to a mesh of 1 host x 2
\* devices, from the second to the first, or one in each direction with the
\* same two shardings; the input array lies sharded on its source mesh.
InitExecOn(mesh0, mesh1) ==
    /\ meshes = [m \in 0..1 |-> IF m = 0 THEN mesh0 ELSE mesh1]
    /\ \E a \in ExecArraysOn(0), b \in ExecArraysOn(1), legs \in Legs :
          /\ resharding_specs =
                [i \in 0..1 |-> [j \in 0..1 |->
                    IF i = 0 /\ j = 1 /\ legs # "back"
                    THEN <<ReshardingTaskSpec(a, b)>>
                    ELSE IF i = 1 /\ j = 0 /\ legs # "there"
                    THEN <<ReshardingTaskSpec(b, a)>>
                    ELSE <<>>]]
          /\ \E input \in {IF legs = "back" THEN b ELSE a} :
                /\ arrays = <<DistributedArray(input.mesh, input,
                                 [f \in 1..input.num_devices |->
                                     BufferUuid(0, DeviceStr(input.mesh, f - 1))])>>
                /\ buffer_data =
                      [u \in {BufferUuid(0, DeviceStr(input.mesh, f)) :
                                  f \in 0..(input.num_devices - 1)} |->
                          ShardData(input, u[2][2])]
    /\ sender_loads = [d \in AllDevices |-> 0]
    /\ receiver_loads = [d \in AllDevices |-> 0]
    /\ cursor = StartCursor
    /\ per_spec_plans = <<>>
    /\ per_spec_plan = <<>>
    /\ IdleGeo
    /\ IdleGroup
    /\ IdleTask
    /\ exec = NoExec
    /\ outstanding = {}
    /\ issued = <<>>
    /\ IdleCall

InitExec == InitExecOn(Mesh(2, 2), Mesh(1, 2))


\* do(src_array) with the comparison of the meshes left out (lines 69-72).
do_NoMeshCheck(src_mesh, src_array, spec) ==
    IF ~spec.strategy.is_set
    THEN [raised |-> "RuntimeError", requests |-> <<>>]
    ELSE [raised |-> "TypeError", requests |-> <<>>]

\* EagerReshardingTask.do(src_array) of a task with source mesh src_mesh:
\* the error it raises and the remote requests it has issued by then.  An
\* array of another mesh is refused first.  Otherwise the first pass of the
\* loop reads task_spec.strategy, which raises when no strategy is set, and
\* subscripts it (strategy[i]); a ReshardingStrategy has no item access, so
\* the pass raises TypeError before same_destination_group_send_recv runs.
do(src_mesh, src_array, spec) ==
    IF src_array.device_mesh # src_mesh
    THEN [raised |-> "RuntimeError", requests |-> <<>>]
    ELSE IF ~spec.strategy.is_set
    THEN [raised |-> "RuntimeError", requests |-> <<>>]
    ELSE [raised |-> "TypeError", requests |-> <<>>]

\* The control thread is blocked in ray.get(results) of do_prepared.
Waiting == exec.call = "do_prepared" /\ ~exec.returned

\* The strategies are generated and the group of the two meshes exists.
ReadyToRun ==
    /\ cursor # <<>>
    /\ cursor.spec > Len(task_spec_iter)
    /\ collective_group.constructed
    /\ raised = None
    /\ ~Waiting

\* EagerReshardingTask(task_spec, collective_group, src_mesh,
\* dst_mesh).do(src_array) for one of the task specs and one of the arrays.
EagerDo ==
    /\ ReadyToRun
    /\ \E n \in DOMAIN task_spec_iter : \E a \in DOMAIN arrays :
       \E key \in {task_spec_iter[n]} :
       \E done \in {do(key[1], arrays[a], SpecAt(key))} :
          /\ raised' = done.raised
          /\ issued' = issued \o done.requests
          /\ outstanding' = outstanding \cup Range(done.requests)
          /\ exec' = [NoExec EXCEPT !.call = "do", !.key = key, !.src_array = a]
    /\ UNCHANGED <<task_spec, commVars, groupVars, taskVars, arrays,
                   buffer_data, callVars>>

\* BufUuids with every worker's list in the reverse of the plan's order.
BufUuids_Reversed(group, mesh_workers, uuid_plan, buffer_of) ==
    [w \in Range(mesh_workers) |->
        LET Mine(d) == group.device_str_to_mesh_worker_map[d] = w
            mine == SelectSeq(uuid_plan, Mine)
        IN  [n \in 1..Len(mine) |-> buffer_of[mine[Len(mine) + 1 - n]]]]

\* The buffer uuids do_prepared collects for the workers of a mesh: for
\* each device of the plan, in plan order, the buffer `buffer_of` gives it,
\* appended to the list of the device's worker.
BufUuids(group, mesh_workers, uuid_plan, buffer_of) ==
    [w \in Range(mesh_workers) |->
        LET Mine(d) == group.device_str_to_mesh_worker_map[d] = w
            mine == SelectSeq(uuid_plan, Mine)
        IN  [n \in 1..Len(mine) |-> buffer_of[mine[n]]]]

\* The remote calls of do_prepared, in issue order: one per entry of
\* send_worker_task_ids, then one per entry of recv_worker_task_ids, each
\* with the worker's task id and buffer uuids.  entries is the task list the
\* worker holds under that id; step numbers the do_prepared call.
RunRequests(t, profiling, src_workers, dst_workers, send_bufs, recv_bufs, step) ==
    [n \in 1..Len(src_workers) |->
        [worker |-> src_workers[n],
         method |-> IF profiling THEN "profile_resharding_send_task"
                    ELSE "run_resharding_send_task",
         uuid |-> t.send_worker_task_ids[src_workers[n]],
         buf_uuids |-> send_bufs[src_workers[n]],
         entries |-> t.sender_tasks[src_workers[n]],
         step |-> step]]
    \o [n \in 1..Len(dst_workers) |->
        [worker |-> dst_workers[n],
         method |-> IF profiling THEN "profile_resharding_recv_task"
                    ELSE "run_resharding_recv_task",
         uuid |-> t.recv_worker_task_ids[dst_workers[n]],
         buf_uuids |-> recv_bufs[dst_workers[n]],
         entries |-> t.receiver_tasks[dst_workers[n]],
         step |-> step]]

\* do_prepared(src_array, profiling) on the task compiled last, with an
\* array that lies on the task's source mesh in the source sharding, up to
\* and including the remote calls: the destination buffers get their
\* handles, the buffers of the senders are looked up in src_array, and the
\* run (or profile) request of every worker is issued.
DoPreparedCall ==
    /\ ReadyToRun
    /\ task.compiled
    /\ exec.key # task.key
    /\ \E profiling \in BOOLEAN : \E a \in DOMAIN arrays :
       \E key \in {task.key} :
       \E spec \in {SpecAt(task.key)} :
       \E src_workers \in {workers(key[1], meshes[key[1]])} :
       \E dst_workers \in {workers(key[2], meshes[key[2]])} :
          /\ arrays[a].device_mesh = key[1]
          /\ arrays[a].sharding = spec.src
          /\ \E recv_bufs \in {BufUuids(collective_group, dst_workers,
                                   task.receiver_uuid_plan,
                                   [d \in Range(task.receiver_uuid_plan) |->
                                       BufferUuid(compiled, d)])} :
             \E send_bufs \in {BufUuids(collective_group, src_workers,
                                   task.sender_uuid_plan,
                                   [d \in Range(task.sender_uuid_plan) |->
                                       arrays[a].remote_buffers[d[2] + 1]])} :
             \E requests \in {RunRequests(task, profiling, src_workers,
                                  dst_workers, send_bufs, recv_bufs, compiled)} :
                /\ issued' = issued \o requests
                /\ outstanding' = outstanding \cup Range(requests)
                /\ exec' = [call |-> "do_prepared", profiling |-> profiling,
                            returned |-> FALSE, key |-> key,
                            src_array |-> a, send_buf_uuids |-> send_bufs,
                            recv_buf_uuids |-> recv_bufs,
                            results |-> Range(requests)]
    /\ raised' = None
    /\ UNCHANGED <<task_spec, commVars, groupVars, taskVars, arrays,
                   buffer_data, callVars>>


\* The part of a buffer's contents that an offset (one slice per axis)
\* picks out, as the contents of a buffer of the slice's shape.
Extract(contents, offset) ==
    [l \in Positions(SliceShape(offset)) |->
        contents[<<l[1] + offset[1].start, l[2] + offset[2].start>>]]

\* What a position of a receive buffer holds that no transfer wrote.
Uninitialised == <<-1, -1>>

\* The worker side of a send request: the tiles it sends over the
\* peer-to-peer communicator comm = (sender rank, sender gpu, receiver rank,
\* receiver gpu), in entry order; entry i sends the region entries[i].offset
\* of buffer i from that buffer's device.
SentOn(group, req, comm) ==
    LET OnComm(i) ==
            /\ group.device_str_to_device_id_map[req.buf_uuids[i][2]] = comm[2]
            /\ req.entries[i].rank = comm[3]
            /\ req.entries[i].gpu_idx = comm[4]
        mine == SelectSeq([i \in 1..Len(req.entries) |-> i], OnComm)
    IN  [j \in 1..Len(mine) |->
            Extract(buffer_data[req.buf_uuids[mine[j]]],
                    req.entries[mine[j]].offset)]

\* The receives of a receive request in execution order: task by task, tile
\* spec by tile spec, each with its communicator.
RecvSlots(group, req) ==
    FlattenSeq([n \in 1..Len(req.entries) |->
        [k \in 1..Len(req.entries[n].tile_specs) |->
            [task |-> n,
             indices |-> req.entries[n].tile_specs[k].indices,
             comm |-> <<req.entries[n].tile_specs[k].rank,
                        req.entries[n].tile_specs[k].gpu_idx,
                        group.worker_to_rank_map[req.worker],
                        req.entries[n].device_id>>]]])

\* The tile each receive of a receive request gets: the j-th receive on a
\* communicator gets the j-th tile sent on it in the same do_prepared call.
ReceivedTiles(group, req, slots, requests) ==
    [m \in 1..Len(slots) |->
        LET comm == slots[m].comm
            j == Cardinality({m2 \in 1..m : slots[m2].comm = comm})
            send == CHOOSE r \in Range(requests) :
                       /\ r.step = req.step
                       /\ r.method = "run_resharding_send_task"
                       /\ r.worker = group.mesh_workers[comm[1] + 1]
        IN  SentOn(group, send, comm)[j]]

\* The contents of the buffer of receive task n once the request is done:
\* every received tile is written at the indices of its tile spec, later
\* receives over earlier ones.
RecvBuffer(req, n, slots, tiles) ==
    [l \in Positions(req.entries[n].shape) |->
        LET covering == {m \in 1..Len(slots) :
                            /\ slots[m].task = n
                            /\ \A i \in Axes :
                                  /\ slots[m].indices[i].start <= l[i]
                                  /\ l[i] < slots[m].indices[i].stop}
        IN  IF covering = {} THEN Uninitialised
            ELSE LET m == CHOOSE x \in covering : \A y \in covering : y <= x
                 IN  tiles[m][<<l[1] - slots[m].indices[1].start,
                                l[2] - slots[m].indices[2].start>>]]

\* A worker completes one of the requests it was sent; a completed run of a
\* receive task has filled the buffers it was handed.
WorkerDone ==
    /\ \E req \in outstanding :
          /\ outstanding' = outstanding \ {req}
          /\ IF req.method = "run_resharding_recv_task"
             THEN \E slots \in {RecvSlots(collective_group, req)} :
                  \E tiles \in {ReceivedTiles(collective_group, req, slots,
                                              issued)} :
                     buffer_data' =
                         [u \in DOMAIN buffer_data \cup Range(req.buf_uuids) |->
                             IF u \in Range(req.buf_uuids)
                             THEN RecvBuffer(req, IndexOf(req.buf_uuids, u),
                                             slots, tiles)
                             ELSE buffer_data[u]]
             ELSE buffer_data' = buffer_data
    /\ UNCHANGED <<geoVars, commVars, groupVars, taskVars, arrays, exec,
                   issued, callVars>>

\* The buffer list do_prepared assembles for the destination array: one
\* position per destination device, filled for each device string of the
\* destination mesh, at the device's flat index, with the buffer the map
\* holds for it; a device the receiver plan never named is a KeyError.
AssembleBufs(dst_mesh, device_str_to_buf_map) ==
    IF \E f \in 1..num_devices(meshes[dst_mesh]) :
          DeviceStr(dst_mesh, f - 1) \notin DOMAIN device_str_to_buf_map
    THEN [raised |-> "KeyError", bufs |-> <<>>]
    ELSE [raised |-> None,
          bufs |-> [f \in 1..num_devices(meshes[dst_mesh]) |->
                       device_str_to_buf_map[DeviceStr(dst_mesh, f - 1)]]]

\* do_prepared from its remote calls to its return: the destination array
\* is assembled from the buffers of the destination mesh's devices in
\* device_strs order; with profiling the futures are returned instead.
DoPreparedReturn ==
    /\ Waiting
    /\ MayReturn(exec.profiling, exec.results, outstanding)
    /\ exec' = [exec EXCEPT !.returned = TRUE]
    /\ \E done \in {AssembleBufs(exec.key[2],
                         [d \in Range(task.receiver_uuid_plan) |->
                             BufferUuid(compiled, d)])} :
          /\ raised' = IF exec.profiling THEN raised ELSE done.raised
          /\ arrays' =
                IF exec.profiling \/ done.raised # None THEN arrays
                ELSE Append(arrays,
                        DistributedArray(exec.key[2], SpecAt(exec.key).dst,
                                         done.bufs))
    /\ UNCHANGED <<task_spec, commVars, groupVars, taskVars, buffer_data,
                   outstanding, issued, callVars>>

\* The next task is compiled by the control thread when it is not blocked.
CompileNext ==
    /\ ~Waiting
    /\ CompileTask

NextExec ==
    \/ AssignStep
    \/ EstablishGroup
    \/ CompileNext
    \/ EagerDo
    \/ DoPreparedCall
    \/ WorkerDone
    \/ DoPreparedReturn

SpecExec == InitExec /\ [][NextExec]_vars


\* ----------------------------------------------------- claims: execution
\* The array a do call was given lies on another mesh than the task's source.
ForeignArray(e) == arrays[e.src_array].device_mesh # e.key[1]

\* C11: a do call whose input array lies on another mesh than the task's
\* source mesh raises RuntimeError, and the call issues no remote request:
\* no buffer is allocated or written and nothing is sent or received.
C11_DoRefusesForeignArray ==
    [][(exec'.call = "do" /\ exec.call # "do" /\ ForeignArray(exec')) =>
          /\ raised' = "RuntimeError"
          /\ issued' = issued
          /\ outstanding' = outstanding
          /\ buffer_data' = buffer_data
          /\ arrays' = arrays]_vars

\* C11 witness: after a do_prepared that issued requests, do was called with
\* an array of the wrong mesh and raised.
C11_Witness ==
    /\ exec.call = "do"
    /\ ForeignArray(exec)
    /\ raised = "RuntimeError"
    /\ Len(issued) > 0


\* The requests of the do_prepared call made last were built for the plans
\* of its task spec.
SenderOfEntry(e) ==
    PassSender(SpecAt(exec.key).strategy.per_spec_plans, e.transfer)

ReceiverOfTask(t) ==
    PassReceiver(SpecAt(exec.key).dst_tile_to_src_tiles_map,
                 t.tile_specs[1].transfer)

\* C12: in every request of a do_prepared call the list of buffer uuids is
\* as long as the worker's registered entry list; buffer i of a send request
\* is the input array's buffer on the sender device of send entry i, and
\* buffer i of a receive request is the buffer allocated for the receiving
\* device of receive task i, whose local index the task names.
C12_BuffersFollowEntries ==
    exec.call = "do_prepared" =>
        \A r \in exec.results :
            /\ Len(r.buf_uuids) = Len(r.entries)
            /\ r.uuid \in {g.uuid : g \in {x \in Range(registered) :
                                              x.worker = r.worker}}
            /\ \A i \in 1..Len(r.entries) :
                  IF r.worker.mesh = exec.key[1]
                  THEN r.buf_uuids[i] =
                          arrays[exec.src_array].remote_buffers
                              [SenderOfEntry(r.entries[i])[2] + 1]
                  ELSE /\ r.buf_uuids[i][2] = ReceiverOfTask(r.entries[i])
                       /\ r.buf_uuids[i] \notin Range(arrays[exec.src_array].remote_buffers)
                       /\ r.entries[i].device_id =
                             collective_group.device_str_to_device_id_map
                                 [ReceiverOfTask(r.entries[i])]

\* C12 witness: a send request with entries for two different sender
\* devices, and a receive request with two receive tasks.
C12_Witness ==
    /\ exec.call = "do_prepared"
    /\ \E r \in exec.results :
          /\ r.worker.mesh = exec.key[1]
          /\ \E i, j \in 1..Len(r.buf_uuids) : r.buf_uuids[i] # r.buf_uuids[j]
    /\ \E r \in exec.results :
          /\ r.worker.mesh = exec.key[2]
          /\ Len(r.buf_uuids) >= 2

\* The do_prepared call of the task compiled last issued one run request
\* (with profiling: one profile request) per worker that holds a send task
\* and per worker that holds a receive task of the task.
AllRunRequestsIssued ==
    /\ \A w \in DOMAIN task.send_worker_task_ids :
          \E r \in exec.results :
             /\ r.worker = w
             /\ r.method = IF exec.profiling
                           THEN "profile_resharding_send_task"
                           ELSE "run_resharding_send_task"
             /\ r.uuid = task.send_worker_task_ids[w]
    /\ \A w \in DOMAIN task.recv_worker_task_ids :
          \E r \in exec.results :
             /\ r.worker = w
             /\ r.method = IF exec.profiling
                           THEN "profile_resharding_recv_task"
                           ELSE "run_resharding_recv_task"
             /\ r.uuid = task.recv_worker_task_ids[w]
    /\ exec.results \subseteq Range(issued)

\* C13 (amended): a do_prepared call without profiling has issued the run
\* request of every worker's send task and receive task, and once it has
\* returned none of its requests is outstanding.
C13_ReturnsAfterAllAcknowledged ==
    (exec.call = "do_prepared" /\ ~exec.profiling) =>
        /\ task.key = exec.key => AllRunRequestsIssued
        /\ exec.returned => exec.results \cap outstanding = {}

\* C13 witness: a do_prepared call without profiling has returned, after
\* requests to three workers.
C13_Witness ==
    /\ exec.call = "do_prepared"
    /\ ~exec.profiling
    /\ exec.returned
    /\ Cardinality(exec.results) >= 3

\* C13 (as stated): every do_prepared call has issued the run request of
\* every worker's send task and receive task, and once it has returned none
\* of its requests is outstanding.
C13_NeverReturnsEarly ==
    exec.call = "do_prepared" =>
        /\ task.key = exec.key => AllRunRequestsIssued
        /\ exec.returned => exec.results \cap outstanding = {}


\* A sharding that cuts both axes more than one way.
BothAxesSharded(sharding) == \A i \in Axes : sharding.tile_shape[i] > 1

\* The round trip is done: the input array, sharded A, was resharded to the
\* other mesh and the result was resharded back to sharding A.
RoundTripDone ==
    /\ Len(arrays) = 3
    /\ arrays[3].sharding = arrays[1].sharding
    /\ arrays[2].device_mesh # arrays[1].device_mesh
    /\ BothAxesSharded(arrays[1].sharding)

\* C18: an array sharded more than one way on both axes is resharded by
\* either execution path (do, do_prepared) without error, and after the
\* resharding to another sharding on the other mesh and back every device
\* holds the elements it held originally.
C18_RoundTripIsIdentity ==
    /\ (/\ exec.call = "do"
        /\ ~ForeignArray(exec)
        /\ arrays[exec.src_array].sharding = SpecAt(exec.key).src
        /\ BothAxesSharded(arrays[exec.src_array].sharding))
          => raised = None
    /\ RoundTripDone =>
          \A f \in DOMAIN arrays[1].remote_buffers :
              buffer_data[arrays[3].remote_buffers[f]]
                  = buffer_data[arrays[1].remote_buffers[f]]

\* The task compiled last is the scenario's: a 4 x 4 array from 2 devices,
\* chunked 2-way along axis 0, to 4 devices, chunked 2 x 2.
Scenario ==
    /\ task.compiled
    /\ SpecAt(task.key).src.tensor_shape = <<4, 4>>
    /\ SpecAt(task.key).src.num_devices = 2
    /\ SpecAt(task.key).src.tile_shape = <<2, 1>>
    /\ SpecAt(task.key).dst.num_devices = 4
    /\ SpecAt(task.key).dst.tile_shape = <<2, 2>>

\* The receive tasks of the compiled task that fill a replica of
\* destination tile i, as (worker, position) pairs.
RecvTasksOfTile(i) ==
    {wn \in UNION {{<<w, n>> : n \in 1..Len(task.receiver_tasks[w])} :
                      w \in DOMAIN task.receiver_tasks} :
        task.receiver_tasks[wn[1]][wn[2]].tile_specs[1].transfer[1] = i}

\* The scenario's destination tiles and what each needs: perTile receive
\* tasks per destination tile, every one with a single tile spec, a single
\* source tile-slice per destination tile, and the four index ranges
\* [0:2, 0:2], [0:2, 2:4], [2:4, 0:2], [2:4, 2:4] in this order.
ScenarioHolds(perTile) ==
    LET map == SpecAt(task.key).dst_tile_to_src_tiles_map
    IN  /\ Len(map) = 4
        /\ \A i \in 1..4 :
              /\ Cardinality(RecvTasksOfTile(i)) = perTile
              /\ \A wn \in RecvTasksOfTile(i) :
                    Len(task.receiver_tasks[wn[1]][wn[2]].tile_specs) = 1
              /\ Len(map[i].src_tile_slices) = 1
        /\ [i \in 1..4 |-> map[i].dst_tile.indices]
              = << <<slice(0, 2), slice(0, 2)>>, <<slice(0, 2), slice(2, 4)>>,
                   <<slice(2, 4), slice(0, 2)>>, <<slice(2, 4), slice(2, 4)>> >>

\* C19 (amended): in the scenario there is exactly 1 receive task per
\* destination tile, each destination tile needs a slice of exactly 1
\* source tile, and the four destination index ranges are as listed.
C19_ScenarioOneTaskPerTile == Scenario => ScenarioHolds(1)

\* C19 witness: the scenario's task is compiled.
C19_Witness ==
    /\ Scenario
    /\ \A w \in DOMAIN task.receiver_tasks : Len(task.receiver_tasks[w]) = 2

\* C19 (as stated): in the scenario there are exactly 2 receive tasks per
\* destination tile, each destination tile needs a slice of exactly 1
\* source tile, and the four destination index ranges are as listed.
C19_ScenarioTwoTasksPerTile == Scenario => ScenarioHolds(2)

\* ----------------------------------------- ReshardingTaskSpec: strategy
\* OrderedSet(list): the elements of a list in first-occurrence order.
RECURSIVE OrderedSet(_)
OrderedSet(seq) ==
    IF seq = <<>> THEN <<>>
    ELSE LET rest == OrderedSet(SubSeq(seq, 1, Len(seq) - 1))
             last == seq[Len(seq)]
         IN  IF last \in Range(rest) THEN rest ELSE Append(rest, last)

\* `not self._strategy`: None is falsy, a ReshardingStrategy object is truthy.
Truthy(s) == s.is_set

\* ReshardingTaskSpec.set_resharding_strategy: the spec afterwards.
set_resharding_strategy(spec, s) == [spec EXCEPT !.strategy = s]

\* The property strategy without the check that it was set.
strategy_NoCheck(spec) == [raised |-> None, value |-> spec.strategy]

\* The property ReshardingTaskSpec.strategy: the error raised and the value
\* returned.
strategy(spec) ==
    IF ~Truthy(spec.strategy)
    THEN [raised |-> "RuntimeError", value |-> <<>>]
    ELSE [raised |-> None, value |-> spec.strategy]

\* ReshardingTaskSpec.get_participant_device_strs: the senders of every plan,
\* then the receivers of every destination tile, each device once.
get_participant_device_strs(spec) ==
    IF ~Truthy(spec.strategy)
    THEN [raised |-> "RuntimeError", value |-> <<>>]
    ELSE LET plans   == strategy(spec).value.per_spec_plans
             tiles   == TilesFlatten(spec.dst)
             senders == FlattenSeq([i \in 1..Len(plans) |->
                                       FlattenSeq(plans[i])])
             receivers == FlattenSeq([t \in 1..Len(tiles) |->
                                         tiles[t].replica_device_strs])
         IN  [raised |-> None, value |-> OrderedSet(senders \o receivers)]

\* The specs of the strategy specification: a 2 x 2 array on 4 devices of
\* mesh 0 to 4 devices of mesh 1, tiled 2 x 1 (two replicas a tile) or 2 x 2.
StrategyTilings == {<<2, 1>>, <<2, 2>>}

StrategySpecs ==
    {ReshardingTaskSpec(VirtualDistributedArray(0, 4, <<2, 2>>, s),
                        VirtualDistributedArray(1, 4, <<2, 2>>, t)) :
        s \in StrategyTilings, t \in StrategyTilings}

\* Plans of the shape the generator builds, every sender the first or the
\* last replica of its source tile-slice.
PlansPicking(map, pick) ==
    [i \in 1..Len(map) |->
        [r \in 1..Len(map[i].dst_tile.replica_device_strs) |->
            [k \in 1..Len(map[i].src_tile_slices) |->
                LET reps == map[i].src_tile_slices[k].replica_device_strs
                IN  IF pick = "first" THEN reps[1] ELSE reps[Len(reps)]]]]

\* The strategies a spec can be given.
StrategiesOf(spec) ==
    {ReshardingStrategy(
         PlansPicking(generate_src_dst_map(spec.src, spec.dst), pick), ag) :
        pick \in {"first", "last"}, ag \in BOOLEAN}

\* A fresh task spec; args is the list of the calls made on it.
InitStrategy ==
    /\ task_spec \in StrategySpecs
    /\ raised = None
    /\ args = <<>>
    /\ result = <<>>
    /\ IdleComm
    /\ IdleGroup
    /\ IdleTask
    /\ IdleExec

SetReshardingStrategy ==
    /\ Len(args) < MaxCalls
    /\ \E s \in StrategiesOf(task_spec) :
          /\ task_spec' = set_resharding_strategy(task_spec, s)
          /\ args' = Append(args, [call |-> "set_resharding_strategy", s |-> s])
    /\ raised' = None
    /\ result' = <<>>
    /\ UNCHANGED <<commVars, groupVars, taskVars, execVars>>

\* A read of strategy that would drop the strategy it returns.
ReadStrategy_Clears ==
    /\ Len(args) < MaxCalls
    /\ \E r \in {strategy(task_spec)} :
          /\ raised' = r.raised
          /\ result' = r.value
    /\ args' = Append(args, [call |-> "strategy", s |-> <<>>])
    /\ task_spec' = [task_spec EXCEPT !.strategy = NoStrategy]
    /\ UNCHANGED <<commVars, groupVars, taskVars, execVars>>

ReadStrategy ==
    /\ Len(args) < MaxCalls
    /\ \E r \in {strategy(task_spec)} :
          /\ raised' = r.raised
          /\ result' = r.value
    /\ args' = Append(args, [call |-> "strategy", s |-> <<>>])
    /\ UNCHANGED <<task_spec, commVars, groupVars, taskVars, execVars>>

GetParticipantDeviceStrs ==
    /\ Len(args) < MaxCalls
    /\ \E r \in {get_participant_device_strs(task_spec)} :
          /\ raised' = r.raised
          /\ result' = r.value
    /\ args' = Append(args, [call |-> "get_participant_device_strs",
                             s |-> <<>>])
    /\ UNCHANGED <<task_spec, commVars, groupVars, taskVars, execVars>>

NextStrategy ==
    \/ SetReshardingStrategy
    \/ ReadStrategy
    \/ GetParticipantDeviceStrs

SpecStrategy == InitStrategy /\ [][NextStrategy]_vars

\* ---------------------------------------------------- claims: strategy
\* The strategies given to the spec so far, in call order.
StrategiesSet ==
    SelectSeq(args, LAMBDA c : c.call = "set_resharding_strategy")

\* The call made last.
LastCall == args[Len(args)]

\* C16: a read of strategy, or a call of get_participant_device_strs, made
\* before set_resharding_strategy was ever called raises an error at that
\* call; a read of strategy made after set_resharding_strategy(s) returns
\* the s given last.
C16_StrategyReadNeedsSet ==
    (args # <<>> /\ LastCall.call # "set_resharding_strategy") =>
        IF StrategiesSet = <<>>
        THEN raised # None
        ELSE LastCall.call = "strategy" =>
                /\ raised = None
                /\ result = StrategiesSet[Len(StrategiesSet)].s

\* C16 witness: a read before any set raised, a strategy was set twice, and
\* the read after it returned the second one.
C16_Witness ==
    /\ Len(args) = 4
    /\ args[1].call = "get_participant_device_strs"
    /\ args[2].call = "set_resharding_strategy"
    /\ args[3].call = "set_resharding_strategy"
    /\ args[3].s # args[2].s
    /\ args[4].call = "strategy"
    /\ result = args[3].s

\* ------------------------------------------ claims: built strategies
\* CrossMeshCommunicator.__init__ has completed: its strategy loop is past
\* the last task spec.
ConstructionComplete == cursor # <<>> /\ cursor.spec > Len(task_spec_iter)

\* The keys (i, j, position) of all task specs in resharding_specs.
AllSpecKeys ==
    UNION {{<<i, j, v>> : v \in 1..Len(resharding_specs[i][j])} :
              <<i, j>> \in MeshIndices \X MeshIndices}

\* The plans have the shape of the map: one plan per destination tile, of
\* (replicas of the tile) rows by (source tile-slices of the tile) columns.
PlansFitMap(plans, map) ==
    /\ Len(plans) = Len(map)
    /\ \A i \in 1..Len(map) :
          /\ Len(plans[i]) = Len(map[i].dst_tile.replica_device_strs)
          /\ \A r \in 1..Len(plans[i]) :
                Len(plans[i][r]) = Len(map[i].src_tile_slices)

\* C20: when the construction of the communicator completes, reading
\* strategy on any task spec of resharding_specs does not raise, and the
\* strategy read has one plan per destination tile, of shape (replicas of the
\* tile) by (source tile-slices of the tile).
C20_EverySpecHasAStrategy ==
    ConstructionComplete =>
        \A key \in AllSpecKeys :
            /\ strategy(SpecAt(key)).raised = None
            /\ PlansFitMap(strategy(SpecAt(key)).value.per_spec_plans,
                           generate_src_dst_map(SpecAt(key).src,
                                                SpecAt(key).dst))

\* C20 witness: a communicator of two task specs is built, one of them with
\* a plan of at least 2 replicas by 2 source tile-slices.
C20_Witness ==
    /\ ConstructionComplete
    /\ Cardinality(AllSpecKeys) = 2
    /\ \E key \in AllSpecKeys :
          \E i \in 1..Len(SpecAt(key).strategy.per_spec_plans) :
              /\ Len(SpecAt(key).strategy.per_spec_plans[i]) >= 2
              /\ Len(SpecAt(key).strategy.per_spec_plans[i][1]) >= 2

\* ------------------------------------------------------ allgather rewrite
\* pxla sharding specs.  sharding has one entry per tensor axis, NoSharding
\* or Chunked([n]); mesh_mapping has one entry per mesh axis, ShardedAxis(k)
\* (the k-th chunked tensor axis is cut along this mesh axis) or
\* Replicated(n).  Axes count from 0, as in the code.
NoSharding == [kind |-> "NoSharding", chunks |-> <<>>]

Chunked(chunks) == [kind |-> "Chunked", chunks |-> chunks]

ShardedAxis(axis) == [kind |-> "ShardedAxis", axis |-> axis, replicas |-> 0]

Replicated(replicas) ==
    [kind |-> "Replicated", axis |-> 0, replicas |-> replicas]

ShardingSpec(sharding, mesh_mapping) ==
    [sharding |-> sharding, mesh_mapping |-> mesh_mapping]

\* dim_spec_chunk_value: the chunks of a chunked axis, 1 for an unsharded one.
dim_spec_chunk_value(spec) ==
    IF spec.kind = "Chunked" THEN spec.chunks[1] ELSE 1

\* chunk_dim_to_tensor_dim (chunked_axes): the chunked tensor axes, in order.
chunk_dim_to_tensor_dim(sharding) ==
    SelectSeq([d \in 1..Len(sharding) |-> d - 1],
              LAMBDA d : sharding[d + 1].kind = "Chunked")

\* What _rewrite_allgather_specs returns or raises; no slice is <<>>.
Rewritten(raise, spec, extra_slice) ==
    [raised |-> raise, dst_sharding_spec |-> spec, extra_slice |-> extra_slice]

\* The mesh axes of mesh_mapping that are ShardedAxis, from 0.
ShardedMeshDims(mesh_mapping) ==
    {i \in 0..(Len(mesh_mapping) - 1) : mesh_mapping[i + 1].kind = "ShardedAxis"}

\* The body of _rewrite_allgather_specs past the use_scatter_gather test.
RewriteForAllgather(dst_sharding_spec, dst_mesh, var) ==
    LET sharding == dst_sharding_spec.sharding
        mapping  == dst_sharding_spec.mesh_mapping
        tot_sharding ==
            Prod([d \in 1..Len(sharding) |-> dim_spec_chunk_value(sharding[d])])
        c2t      == chunk_dim_to_tensor_dim(sharding)
        sharded  == ShardedMeshDims(mapping)
        extra_sharding == num_devices(dst_mesh) \div tot_sharding
        TensorDimOf(i) == c2t[mapping[i + 1].axis + 1]
        keys     == {TensorDimOf(i) : i \in sharded}
        \* shard_axes: tensor axis -> mesh axis, the last write winning.
        shard_axes == [k \in keys |->
            CHOOSE i \in sharded :
                /\ TensorDimOf(i) = k
                /\ \A j \in sharded : TensorDimOf(j) = k => j <= i]
        first_mesh_dim == mapping[1]
        Fits(dim) ==
            /\ var[dim + 1] % (extra_sharding
                                 * dim_spec_chunk_value(sharding[dim + 1])) = 0
            /\ ~(dim \in keys /\ shard_axes[dim] # 0)
        fitting == {dim \in 0..(Len(sharding) - 1) : Fits(dim)}
    IN  IF tot_sharding = num_devices(dst_mesh)
        THEN Rewritten(None, dst_sharding_spec, <<>>)
        ELSE IF num_devices(dst_mesh) % tot_sharding # 0
        THEN Rewritten("AssertionError", <<>>, <<>>)
        ELSE IF \E i \in sharded : mapping[i + 1].axis >= Len(c2t)
        THEN Rewritten("IndexError", <<>>, <<>>)
        ELSE IF mapping = <<>>
        THEN Rewritten("IndexError", <<>>, <<>>)
        ELSE IF /\ \/ first_mesh_dim.kind = "Replicated"
                   \/ dim_spec_chunk_value(
                          sharding[c2t[first_mesh_dim.axis + 1] + 1])
                        < dst_mesh.num_hosts
                /\ dst_mesh.num_hosts > 1
        THEN Rewritten(None, dst_sharding_spec, <<>>)
        ELSE IF Cardinality(keys) >= 2
        THEN Rewritten("AssertionError", <<>>, <<>>)
        ELSE IF fitting = {}
        THEN Rewritten(None, dst_sharding_spec, <<>>)
        ELSE LET dim == CHOOSE d \in fitting : \A e \in fitting : d <= e
                 new_chunked_value ==
                     extra_sharding * dim_spec_chunk_value(sharding[dim + 1])
                 new_sharding ==
                     [sharding EXCEPT ![dim + 1] = Chunked(<<new_chunked_value>>)]
                 new_axis ==
                     IF 0 \in {shard_axes[k] : k \in keys} THEN 1 ELSE 0
                 new_keys == keys \cup {dim}
                 new_shard_axes == [k \in new_keys |->
                     IF k \in keys THEN shard_axes[k] ELSE new_axis]
                 \* the position of tensor axis k among the sorted keys
                 Position(k) == Cardinality({j \in new_keys : j < k})
                 new_mapping == [i \in 1..2 |->
                     IF \E k \in new_keys : new_shard_axes[k] = i - 1
                     THEN ShardedAxis(Position(
                              CHOOSE k \in new_keys :
                                  /\ new_shard_axes[k] = i - 1
                                  /\ \A j \in new_keys :
                                        new_shard_axes[j] = i - 1 => j <= k))
                     ELSE Replicated(1)]
             IN  Rewritten(None, ShardingSpec(new_sharding, new_mapping),
                           <<dim, new_shard_axes[dim], extra_sharding>>)

\* A rewrite that does not look at use_scatter_gather.
rewrite_allgather_specs_Always(flag, dst_sharding_spec, dst_mesh, var) ==
    RewriteForAllgather(dst_sharding_spec, dst_mesh, var)

\* CrossMeshCommunicator._rewrite_allgather_specs(dst_sharding_spec,
\* dst_mesh, var) with global_config.use_scatter_gather = flag; var is given
\* by var.aval.shape.
rewrite_allgather_specs(flag, dst_sharding_spec, dst_mesh, var) ==
    IF ~flag
    THEN Rewritten(None, dst_sharding_spec, <<>>)
    ELSE RewriteForAllgather(dst_sharding_spec, dst_mesh, var)

\* What _allgather_receiver_step_and_offset returns or raises.
StepAndOffset(raise, step, offset, group_idx, dst_mesh_shape) ==
    [raised |-> raise, step |-> step, offset |-> offset,
     group_idx |-> group_idx, dst_mesh_shape |-> dst_mesh_shape]

\* SymbolicReshardingTask._allgather_receiver_step_and_offset(receiver) of a
\* task between the meshes src and dst whose spec has the allgather_slice slc
\* and the dst_sharding_spec dst_spec.
allgather_receiver_step_and_offset(slc, dst_spec, group, src, dst, receiver) ==
    LET mesh_axis      == slc[2]
        extra_sharding == slc[3]
        rank           == group.device_str_to_rank_map[receiver]
        host_idx       == IF rank[1] >= src.num_hosts
                          THEN rank[1] - src.num_hosts ELSE rank[1]
        flatten_idx    == host_idx * dst.num_devices_per_host + rank[2]
        chunked_axes   == chunk_dim_to_tensor_dim(dst_spec.sharding)
        dst_mesh_shape ==
            [i \in 1..Len(dst_spec.mesh_mapping) |->
                IF dst_spec.mesh_mapping[i].kind = "ShardedAxis"
                THEN dst_spec.sharding[
                         chunked_axes[dst_spec.mesh_mapping[i].axis + 1] + 1
                     ].chunks[1]
                ELSE 1]
    IN  IF receiver \notin DOMAIN group.device_str_to_rank_map
        THEN StepAndOffset("KeyError", 0, 0, 0, <<>>)
        ELSE IF ~(Len(dst_mesh_shape) < 3)
        THEN StepAndOffset("AssertionError", 0, 0, 0, <<>>)
        ELSE IF mesh_axis = 0
        THEN IF Len(dst_mesh_shape) < 2
             THEN StepAndOffset("IndexError", 0, 0, 0, <<>>)
             ELSE StepAndOffset(None,
                    dst_mesh_shape[2],
                    (flatten_idx \div dst_mesh_shape[2]) % extra_sharding,
                    ((flatten_idx \div dst_mesh_shape[2]) \div extra_sharding)
                        * dst_mesh_shape[2]
                      + (flatten_idx % dst_mesh_shape[2]),
                    dst_mesh_shape)
        ELSE IF mesh_axis # 1
        THEN StepAndOffset("AssertionError", 0, 0, 0, <<>>)
        ELSE IF Len(dst_mesh_shape) < 2
        THEN StepAndOffset("IndexError", 0, 0, 0, <<>>)
        ELSE StepAndOffset(None, 1,
                 (flatten_idx % dst_mesh_shape[2]) % extra_sharding,
                 flatten_idx \div extra_sharding,
                 dst_mesh_shape)

\* The destination sharding specs of the allgather specification: a tensor
\* of 2 axes, each unsharded or cut in 1 or 2 chunks, on a mesh of 1 to 3
\* axes; every chunked axis is cut along exactly one mesh axis.
MeshMapEntries == {ShardedAxis(0), ShardedAxis(1), Replicated(1), Replicated(2)}

ValidMapping(sharding, mapping) ==
    \A k \in 0..1 :
        Cardinality({i \in DOMAIN mapping : mapping[i] = ShardedAxis(k)})
            = IF k < Len(chunk_dim_to_tensor_dim(sharding)) THEN 1 ELSE 0

AllgatherShardingSpecs ==
    {ShardingSpec(sh, mm) :
        <<sh, mm>> \in {c \in
            ({NoSharding, Chunked(<<1>>), Chunked(<<2>>)}
                \X {NoSharding, Chunked(<<1>>), Chunked(<<2>>)})
            \X UNION {[1..n -> MeshMapEntries] : n \in 1..3} :
                ValidMapping(c[1], c[2])}}

\* The allgather slices (tensor axis, mesh axis, extra sharding) a spec of
\* the given mesh axes can carry.
AllgatherSlices(mapping) ==
    {<<t, m, 2>> : t \in 0..1, m \in 0..(IF Len(mapping) = 1 THEN 0 ELSE 1)}

\* args holds the inputs: use_scatter_gather, a destination sharding spec,
\* a variable's shape and an allgather slice; the source mesh has 1 host of
\* 2 devices and the destination mesh 1 or 2 hosts of 2 devices each, or 1
\* host of 4.
InitAllgather ==
    /\ \E dst \in {Mesh(1, 2), Mesh(2, 2), Mesh(1, 4)} :
          meshes = [m \in 0..1 |-> IF m = 0 THEN Mesh(1, 2) ELSE dst]
    /\ \E flag \in BOOLEAN, spec \in AllgatherShardingSpecs,
          var \in {<<4, 4>>, <<2, 1>>} :
          \E ags \in AllgatherSlices(spec.mesh_mapping) :
              args = [use_scatter_gather |-> flag, dst_sharding_spec |-> spec,
                      var |-> var, allgather_slice |-> ags]
    /\ result = <<>>
    /\ raised = None
    /\ task_spec = NoTaskSpec
    /\ resharding_specs = <<>>
    /\ sender_loads = <<>>
    /\ receiver_loads = <<>>
    /\ cursor = <<>>
    /\ per_spec_plans = <<>>
    /\ per_spec_plan = <<>>
    /\ IdleGroup
    /\ IdleTask
    /\ IdleExec

\* A call of _rewrite_allgather_specs on the inputs.
RewriteAllgatherSpecs ==
    /\ \E r \in {rewrite_allgather_specs(args.use_scatter_gather,
                     args.dst_sharding_spec, meshes[1], args.var)} :
          /\ result' = [call |-> "_rewrite_allgather_specs", receiver |-> <<>>,
                        value |-> r]
          /\ raised' = r.raised
    /\ UNCHANGED <<task_spec, commVars, groupVars, taskVars, execVars, args>>

\* A call of _allgather_receiver_step_and_offset for a device of the
\* destination mesh, on a task whose spec has the inputs' allgather slice
\* and destination sharding spec.
AllgatherReceiverStepAndOffset ==
    /\ \E receiver \in Range(device_strs(1, meshes[1])) :
       \E r \in {allgather_receiver_step_and_offset(args.allgather_slice,
                     args.dst_sharding_spec, CollectiveGroup(0, 1),
                     meshes[0], meshes[1], receiver)} :
          /\ result' = [call |-> "_allgather_receiver_step_and_offset",
                        receiver |-> receiver, value |-> r]
          /\ raised' = r.raised
    /\ UNCHANGED <<task_spec, commVars, groupVars, taskVars, execVars, args>>

\* task_spec.dst_indices[0]: the index of the first device under a sharding
\* spec, one slice per tensor axis; a chunked axis gives the first chunk, an
\* unsharded one slice(None), kept as a slice with is_none set.
RelativeIndices(shape, dst_spec) ==
    [a \in 1..Len(shape) |->
        IF dst_spec.sharding[a].kind = "Chunked"
        THEN [is_none |-> FALSE, start |-> 0,
              stop |-> shape[a] \div dst_spec.sharding[a].chunks[1]]
        ELSE [is_none |-> TRUE, start |-> 0, stop |-> 0]]

\* The rewrite of the indices that leaves out the receiver's offset.
PostAllgatherIndices_NoOffset(slc, so, shape, indices) ==
    [a \in 1..Len(indices) |->
        IF indices[a].is_none
        THEN [is_none |-> FALSE, start |-> 0, stop |-> shape[a]]
        ELSE indices[a]]

\* _indices_in_dst_post_allgather past its first test: the slice along the
\* allgather tensor axis is moved by the receiver's offset times the
\* allgather size, and a slice(None) of another axis becomes the whole axis.
\* so is what _allgather_receiver_step_and_offset returned.
PostAllgatherIndices(slc, so, shape, indices) ==
    LET tensor_axis == slc[1]
        mesh_axis == slc[2]
        allgather_dim_size ==
            shape[tensor_axis + 1] \div so.dst_mesh_shape[mesh_axis + 1]
    IN  [a \in 1..Len(indices) |->
            IF a = tensor_axis + 1
            THEN [is_none |-> FALSE,
                  start |-> so.offset * allgather_dim_size + indices[a].start,
                  stop |-> so.offset * allgather_dim_size + indices[a].stop]
            ELSE IF indices[a].is_none
            THEN [is_none |-> FALSE, start |-> 0, stop |-> shape[a]]
            ELSE indices[a]]

\* _compile_allgather_tasks: _allgather_tasks after the loop over
\* dst_indices, per worker a dictionary from group index to
\* ReshardingAllGatherSpec(device_ids, tensor_slices), each list in the
\* order of the flat device ids that were appended.
compile_allgather_tasks(slc, dst_spec, shape, group, src, dst, dst_device_strs) ==
    LET relative_indices == RelativeIndices(shape, dst_spec)
        StepOf(flatten_id) ==
            allgather_receiver_step_and_offset(slc, dst_spec, group, src, dst,
                dst_device_strs[flatten_id + 1])
        ids == 0..(Len(dst_device_strs) - 1)
        WorkerOf(flatten_id) ==
            group.device_str_to_mesh_worker_map[dst_device_strs[flatten_id + 1]]
        raising == {f \in ids : StepOf(f).raised # None}
        Members(w, g) ==
            SelectSeq([n \in 1..Len(dst_device_strs) |-> n - 1],
                      LAMBDA f : WorkerOf(f) = w /\ StepOf(f).group_idx = g)
    IN  IF raising # {}
        THEN [raised |-> StepOf(CHOOSE f \in raising :
                             \A e \in raising : f <= e).raised,
              allgather_tasks |-> <<>>]
        ELSE [raised |-> None,
              allgather_tasks |->
                 [w \in Range(group.mesh_workers) \cap
                         {Worker(group.dst_mesh, h) : h \in 0..(dst.num_hosts - 1)} |->
                     [g \in {StepOf(f).group_idx :
                                f \in {e \in ids : WorkerOf(e) = w}} |->
                         [device_ids |->
                              [n \in 1..Len(Members(w, g)) |->
                                  Members(w, g)[n] % dst.num_devices_per_host],
                          tensor_slices |->
                              [n \in 1..Len(Members(w, g)) |->
                                  PostAllgatherIndices(slc,
                                      StepOf(Members(w, g)[n]), shape,
                                      relative_indices)]]]]]

\* The inputs' sharding spec can be laid out: every chunked axis is cut in
\* equal chunks (pxla refuses a ragged one when the indices are computed).
EvenlyChunked(shape, dst_spec) ==
    \A a \in 1..Len(shape) :
        dst_spec.sharding[a].kind = "Chunked" =>
            shape[a] % dst_spec.sharding[a].chunks[1] = 0

\* _compile_allgather_tasks of the task of a spec as _create_resharding_specs
\* builds it: the destination sharding spec and the allgather slice are the
\* ones _rewrite_allgather_specs returned for the inputs.
CompileAllgatherTasks ==
    /\ \E r \in {rewrite_allgather_specs(args.use_scatter_gather,
                     args.dst_sharding_spec, meshes[1], args.var)} :
          /\ r.raised = None
          /\ r.extra_slice # <<>>
          /\ EvenlyChunked(args.var, r.dst_sharding_spec)
          /\ \E t \in {compile_allgather_tasks(r.extra_slice,
                            r.dst_sharding_spec, args.var,
                            CollectiveGroup(0, 1), meshes[0], meshes[1],
                            device_strs(1, meshes[1]))} :
                /\ result' = [call |-> "_compile_allgather_tasks",
                              receiver |-> <<>>,
                              value |-> [raised |-> t.raised,
                                         allgather_tasks |-> t.allgather_tasks,
                                         allgather_slice |-> r.extra_slice,
                                         dst_sharding_spec |-> r.dst_sharding_spec]]
                /\ raised' = t.raised
    /\ UNCHANGED <<task_spec, commVars, groupVars, taskVars, execVars, args>>

NextAllgather ==
    \/ RewriteAllgatherSpecs
    \/ AllgatherReceiverStepAndOffset
    \/ CompileAllgatherTasks

SpecAllgather == InitAllgather /\ [][NextAllgather]_vars

\* ---------------------------------------------------- claims: allgather
\* C15: with use_scatter_gather false, _rewrite_allgather_specs returns the
\* destination sharding spec it was given, unchanged, and no allgather
\* slice, whatever the sharding spec, the mesh and the variable.
C15_DisabledRewriteReturnsInput ==
    (/\ result # <<>>
     /\ result.call = "_rewrite_allgather_specs"
     /\ ~args.use_scatter_gather) =>
        /\ raised = None
        /\ result.value.dst_sharding_spec = args.dst_sharding_spec
        /\ result.value.extra_slice = <<>>

\* C15 witness: the rewrite was called with use_scatter_gather false on a
\* spec the enabled rewrite changes.
C15_Witness ==
    /\ result # <<>>
    /\ result.call = "_rewrite_allgather_specs"
    /\ ~args.use_scatter_gather
    /\ result.value.dst_sharding_spec = args.dst_sharding_spec
    /\ RewriteForAllgather(args.dst_sharding_spec, meshes[1], args.var)
           .extra_slice # <<>>

\* C17: with an allgather slice set, _allgather_receiver_step_and_offset
\* returns without error when the destination mesh shape has 1 or 2 axes,
\* and raises when it has 3 or more.
C17_OneOrTwoMeshAxesSupported ==
    (/\ result # <<>>
     /\ result.call = "_allgather_receiver_step_and_offset") =>
        IF Len(args.dst_sharding_spec.mesh_mapping) \in {1, 2}
        THEN raised = None
        ELSE raised # None

\* ------------------------------------------ _create_resharding_specs
\* The abstract value (shape) of a variable; variables are named, and a
\* name stands for both the variable's identity and its repr.
Aval(var) ==
    IF var = "a" THEN <<4, 4>> ELSE IF var = "b" THEN <<2, 4>> ELSE <<4, 2>>

\* The tile grid a sharding spec cuts a tensor into.
TileShape(sharding_spec) ==
    [d \in 1..Len(sharding_spec.sharding) |->
        dim_spec_chunk_value(sharding_spec.sharding[d])]

\* list.index(var): the first position of var, from 0.
ListIndex(list, var) ==
    (CHOOSE i \in DOMAIN list :
        list[i] = var /\ \A j \in DOMAIN list : list[j] = var => i <= j) - 1

\* What _args_between returns.
ArgsBetween(src_indices, dst_indices, src_stage, dst_stage) ==
    [resharding_vars |-> [k \in DOMAIN src_indices |->
                             src_stage.outvars[src_indices[k] + 1]],
     src_indices |-> src_indices,
     dst_indices |-> dst_indices]

\* _args_between going through the downstream stage's inputs instead.
args_between_DownstreamOrder(src_stage, dst_stage) ==
    LET dst_indices ==
            SelectSeq([i \in 1..Len(dst_stage.invars) |-> i - 1],
                      LAMBDA i : dst_stage.invars[i + 1]
                                    \in Range(src_stage.outvars))
    IN  ArgsBetween([k \in DOMAIN dst_indices |->
                        ListIndex(src_stage.outvars,
                                  dst_stage.invars[dst_indices[k] + 1])],
                    dst_indices, src_stage, dst_stage)

\* CrossMeshCommunicator._args_between(src_stage, dst_stage): the outputs of
\* src_stage that are inputs of dst_stage, in output order, with their
\* positions on both sides.
args_between(src_stage, dst_stage) ==
    LET src_indices ==
            SelectSeq([i \in 1..Len(src_stage.outvars) |-> i - 1],
                      LAMBDA i : src_stage.outvars[i + 1]
                                    \in Range(dst_stage.invars))
    IN  ArgsBetween(src_indices,
                    [k \in DOMAIN src_indices |->
                        ListIndex(dst_stage.invars,
                                  src_stage.outvars[src_indices[k] + 1])],
                    src_stage, dst_stage)

\* np.argwhere(deps > 0): the (row, column) pairs in row-major order; the
\* row is the downstream stage, the column the upstream one.
ArgWhere(deps) ==
    SelectSeq([k \in 1..(Len(deps) * Len(deps)) |->
                  <<(k - 1) \div Len(deps), (k - 1) % Len(deps)>>],
              LAMBDA p : deps[p[1] + 1][p[2] + 1] > 0)

\* The dictionary assignments of _create_resharding_specs, in execution
\* order: for every pair of dependent stages on different meshes, one per
\* variable between them.
SpecAssignments(a) ==
    FlattenSeq([e \in DOMAIN ArgWhere(a.dependency) |->
        LET pair      == ArgWhere(a.dependency)[e]
            src_stage == a.stages[pair[2] + 1]
            dst_stage == a.stages[pair[1] + 1]
            between   == args_between(src_stage, dst_stage)
        IN  IF a.stage_placements[pair[2] + 1] = a.stage_placements[pair[1] + 1]
            THEN <<>>
            ELSE [k \in DOMAIN between.resharding_vars |->
                    [src_mesh_index |-> a.stage_placements[pair[2] + 1],
                     dst_mesh_index |-> a.stage_placements[pair[1] + 1],
                     var |-> between.resharding_vars[k],
                     src_sharding_spec |->
                         src_stage.output_sharding_specs[
                             between.src_indices[k] + 1],
                     dst_sharding_spec |->
                         dst_stage.input_sharding_specs[
                             between.dst_indices[k] + 1]]]])

\* d[key] = value on a dict kept as the list of its items.
DictSet(d, key, value) ==
    IF \E i \in DOMAIN d : d[i].key = key
    THEN [i \in DOMAIN d |-> IF d[i].key = key
                             THEN [key |-> key, value |-> value] ELSE d[i]]
    ELSE Append(d, [key |-> key, value |-> value])

\* The loop body for one variable: the allgather rewrite, the two arrays and
\* the task spec, stored under the variable's repr.
RECURSIVE AssignSpecs(_, _, _)
AssignSpecs(flag, specs, todo) ==
    IF todo = <<>> THEN [raised |-> None, specs |-> specs]
    ELSE LET t  == Head(todo)
             rw == rewrite_allgather_specs(flag, t.dst_sharding_spec,
                       meshes[t.dst_mesh_index], Aval(t.var))
         IN  IF rw.raised # None THEN [raised |-> rw.raised, specs |-> specs]
             ELSE AssignSpecs(flag,
                    [specs EXCEPT ![t.src_mesh_index][t.dst_mesh_index] =
                        DictSet(@, t.var,
                            [ReshardingTaskSpec(
                                VirtualDistributedArray(t.src_mesh_index,
                                    num_devices(meshes[t.src_mesh_index]),
                                    Aval(t.var), TileShape(t.src_sharding_spec)),
                                VirtualDistributedArray(t.dst_mesh_index,
                                    num_devices(meshes[t.dst_mesh_index]),
                                    Aval(t.var), TileShape(rw.dst_sharding_spec)))
                             EXCEPT !.allgather_slice = rw.extra_slice])],
                    Tail(todo))

\* CrossMeshCommunicator._create_resharding_specs for the stages, the
\* placement and the dependency matrix of a: the error raised and the
\* num_mesh x num_mesh matrix of dicts.
create_resharding_specs(a) ==
    AssignSpecs(a.use_scatter_gather,
                [i \in MeshIndices |-> [j \in MeshIndices |-> <<>>]],
                SpecAssignments(a))

\* The sharding specs of a stage's outputs and inputs, by position.
OutputShardingSpecs(stage_outvars) ==
    [k \in DOMAIN stage_outvars |->
        IF k = 1
        THEN ShardingSpec(<<Chunked(<<2>>), NoSharding>>,
                          <<ShardedAxis(0), Replicated(1)>>)
        ELSE ShardingSpec(<<NoSharding, Chunked(<<2>>)>>,
                          <<Replicated(1), ShardedAxis(0)>>)]

InputShardingSpecs(stage_invars) ==
    [k \in DOMAIN stage_invars |->
        IF k = 1
        THEN ShardingSpec(<<NoSharding, Chunked(<<2>>)>>,
                          <<ShardedAxis(0), Replicated(1)>>)
        ELSE ShardingSpec(<<NoSharding, NoSharding>>,
                          <<Replicated(1), Replicated(1)>>)]

Stage(stage_outvars, stage_invars) ==
    [outvars |-> stage_outvars, invars |-> stage_invars,
     output_sharding_specs |-> OutputShardingSpecs(stage_outvars),
     input_sharding_specs |-> InputShardingSpecs(stage_invars)]

\* The pipelines of the specification: three stages over the variables
\* a, b, c, every placement on two meshes, every set of dependencies of a
\* stage on earlier ones.
Pipelines ==
    {<<Stage(o0, <<>>), Stage(o1, i1), Stage(<<>>, i2)>> :
        <<o0, o1, i1, i2>> \in
            {<<"a", "b">>, <<"b", "a">>, <<"a">>}
            \X {<<"c">>, <<"a", "c">>}
            \X {<<"a">>, <<"b", "a">>}
            \X {<<"a", "c">>, <<"c", "b">>, <<"b">>}}

Dependencies ==
    {<< <<0, 0, 0>>, <<d10, 0, 0>>, <<d20, d21, 0>> >> :
        <<d10, d20, d21>> \in (0..1) \X (0..1) \X (0..1)}

\* args holds the communicator's inputs; resharding_specs is not built.
InitCreate ==
    /\ meshes = [m \in 0..1 |-> IF m = 0 THEN Mesh(1, 2) ELSE Mesh(2, 2)]
    /\ \E stages \in Pipelines, deps \in Dependencies,
          placements \in [1..3 -> 0..1], flag \in BOOLEAN :
          args = [stages |-> stages, dependency |-> deps,
                  stage_placements |-> placements,
                  use_scatter_gather |-> flag]
    /\ result = <<>>
    /\ raised = None
    /\ task_spec = NoTaskSpec
    /\ resharding_specs = <<>>
    /\ sender_loads = <<>>
    /\ receiver_loads = <<>>
    /\ cursor = <<>>
    /\ per_spec_plans = <<>>
    /\ per_spec_plan = <<>>
    /\ IdleGroup
    /\ IdleTask
    /\ IdleExec

\* The call of _create_resharding_specs in __init__: resharding_specs gets
\* the values of every dict in insertion order, result the keys.
CreateReshardingSpecs ==
    /\ result = <<>>
    /\ \E r \in {create_resharding_specs(args)} :
          /\ raised' = r.raised
          /\ resharding_specs' =
                [i \in MeshIndices |-> [j \in MeshIndices |->
                    [k \in DOMAIN r.specs[i][j] |-> r.specs[i][j][k].value]]]
          /\ result' =
                [call |-> "_create_resharding_specs",
                 keys |-> [i \in MeshIndices |-> [j \in MeshIndices |->
                    [k \in DOMAIN r.specs[i][j] |-> r.specs[i][j][k].key]]]]
    /\ UNCHANGED <<task_spec, meshes, sender_loads, receiver_loads, cursor,
                   per_spec_plans, per_spec_plan, groupVars, taskVars,
                   execVars, args>>

NextCreate == CreateReshardingSpecs

SpecCreate == InitCreate /\ [][NextCreate]_vars

\* ------------------------------------------------ claims: created specs
\* The specs are created: _create_resharding_specs has returned.
Created ==
    /\ result # <<>>
    /\ result.call = "_create_resharding_specs"
    /\ raised = None

\* The dependency edges (downstream stage, upstream stage), from 0, whose
\* upstream stage is on mesh m and downstream stage on mesh n, in the order
\* of the scan.
EdgesBetween(m, n) ==
    SelectSeq(ArgWhere(args.dependency),
              LAMBDA p : /\ args.stage_placements[p[2] + 1] = m
                         /\ args.stage_placements[p[1] + 1] = n)

\* The outputs of the edge's upstream stage that the downstream stage takes
\* as inputs, in the order of the upstream stage's outputs.
SharedVars(p) ==
    SelectSeq(args.stages[p[2] + 1].outvars,
              LAMBDA v : v \in Range(args.stages[p[1] + 1].invars))

\* C14: once the specs are created, resharding_specs[m][n] holds a task spec
\* for variable v exactly if m # n and some dependency edge with the upstream
\* stage on mesh m and the downstream stage on mesh n has v among the
\* upstream outputs and the downstream inputs; the spec is for arrays of v
\* on meshes m and n; there is no entry for m = n; and the variables are in
\* the order in which the edges' upstream stages output them, every edge's
\* variables after those of the edges scanned before it.
C14_SpecsMatchCrossMeshEdges ==
    Created =>
        \A m \in MeshIndices, n \in MeshIndices :
            LET keys == result.keys[m][n]
            IN  /\ \A v \in {"a", "b", "c"} :
                      v \in Range(keys) <=>
                          /\ m # n
                          /\ \E e \in DOMAIN EdgesBetween(m, n) :
                                v \in Range(SharedVars(EdgesBetween(m, n)[e]))
                /\ m = n => keys = <<>> /\ resharding_specs[m][n] = <<>>
                /\ Len(resharding_specs[m][n]) = Len(keys)
                /\ \A k \in DOMAIN keys :
                      /\ resharding_specs[m][n][k].src.mesh = m
                      /\ resharding_specs[m][n][k].dst.mesh = n
                      /\ resharding_specs[m][n][k].src.tensor_shape = Aval(keys[k])
                      /\ resharding_specs[m][n][k].dst.tensor_shape = Aval(keys[k])
                /\ m # n =>
                      keys = OrderedSet(FlattenSeq(
                                 [e \in DOMAIN EdgesBetween(m, n) |->
                                     SharedVars(EdgesBetween(m, n)[e])]))

\* C14 witness: specs were created in both directions, two for one mesh pair
\* from one edge whose upstream stage outputs b before a, and some dependent
\* stages share a mesh.
C14_Witness ==
    /\ Created
    /\ result.keys[0][1] = <<"b", "a">>
    /\ Len(EdgesBetween(0, 1)) = 1
    /\ result.keys[1][0] # <<>>
    /\ \E m \in MeshIndices :
          \E e \in DOMAIN EdgesBetween(m, m) : SharedVars(EdgesBetween(m, m)[e]) # <<>>

\* ------------------------------------------------- claims: load totals
\* The sum of the loads of a set of devices.
RECURSIVE SumLoads(_, _)
SumLoads(loads, devices) ==
    IF devices = {} THEN 0
    ELSE LET d == CHOOSE x \in devices : TRUE
         IN  loads[d] + SumLoads(loads, devices \ {d})

\* The sizes of the slices assigned so far: those of every (destination
\* tile replica, source tile-slice) pair the strategy loop has passed.
AssignedSizes ==
    FlattenSeq([n \in 1..Len(task_spec_iter) |->
        LET map == MapOf(SpecAt(task_spec_iter[n]))
        IN  FlattenSeq([t \in DOMAIN map |->
                FlattenSeq([r \in DOMAIN map[t].dst_tile.replica_device_strs |->
                    [k \in DOMAIN map[t].src_tile_slices |->
                        IF \/ n < cursor.spec
                           \/ /\ n = cursor.spec
                              /\ \/ t < cursor.tile
                                 \/ /\ t = cursor.tile
                                    /\ \/ r < cursor.receiver
                                       \/ r = cursor.receiver /\ k < cursor.slice
                        THEN slice_size(map[t].src_tile_slices[k])
                        ELSE 0]])])])

\* C30: after any number of assignment steps of one communicator, the send
\* loads of all devices and the receive loads of all devices have the same
\* sum, the total size of the slices assigned so far.
C30_LoadTotalsAgree ==
    /\ SumLoads(sender_loads, AllDevices) = SumSeq(AssignedSizes)
    /\ SumLoads(receiver_loads, AllDevices) = SumSeq(AssignedSizes)

\* C30 witness: the second task spec is in progress, after a first one whose
\* slices were shared among several senders and several receivers.
C30_Witness ==
    /\ cursor.spec = 2
    /\ cursor.spec <= Len(task_spec_iter)
    /\ cursor.slice > 1 \/ cursor.receiver > 1 \/ cursor.tile > 1
    /\ Cardinality({d \in AllDevices : sender_loads[d] > 0}) >= 2
    /\ Cardinality({d \in AllDevices : receiver_loads[d] > 0}) >= 2

\* ------------------------------------------------ claims: the map cache
\* C25: the map of a task spec is computed at most once: when the first
\* read of dst_tile_to_src_tiles_map has returned, no later read calls
\* generate_src_dst_map or raises, and the read returns the stored map, the
\* one generated from the spec's two arrays.
C25_MapIsComputedOnce ==
    (args # <<>> /\ args[1].call = "dst_tile_to_src_tiles_map"
                 /\ args[1].raised = None) =>
        /\ args[1].generated
        /\ \A n \in DOMAIN args :
              n > 1 => ~args[n].generated /\ args[n].raised = None
        /\ result = task_spec.dst_tile_to_src_tiles_map
        /\ result = generate_src_dst_map(task_spec.src, task_spec.dst)

\* C25 witness: the map of a spec with several destination tiles was read
\* three times.
C25_Witness ==
    /\ Len(args) = 3
    /\ args[3].call = "dst_tile_to_src_tiles_map"
    /\ args[1].generated /\ ~args[3].generated
    /\ Len(result) >= 2
    /\ Len(result[1].src_tile_slices) >= 2

\* C28: when the source partitioning does not divide some axis length
\* evenly, every read of the map raises at that read, returns nothing and
\* leaves the cache empty.
C28_RaggedSourceYieldsNoMap ==
    (/\ args # <<>>
     /\ args[1].call = "dst_tile_to_src_tiles_map"
     /\ \E i \in Axes :
           task_spec.src.tensor_shape[i] % task_spec.src.tile_shape[i] # 0) =>
        /\ raised # None
        /\ \A n \in DOMAIN args : args[n].raised # None
        /\ result = <<>>
        /\ task_spec.dst_tile_to_src_tiles_map = <<>>

\* C28 witness: a map was read twice on a source that is uneven on axis 1
\* only, the destination having more than one tile.
C28_Witness ==
    /\ Len(args) = 2
    /\ args[2].call = "dst_tile_to_src_tiles_map"
    /\ task_spec.src.tensor_shape[1] % task_spec.src.tile_shape[1] # 0
    /\ task_spec.src.tensor_shape[2] % task_spec.src.tile_shape[2] = 0
    /\ NumTiles(task_spec.dst) >= 2
    /\ raised = "AssertionError"

\* ------------------------------------------- claims: strategy changes
\* The step is a call other than set_resharding_strategy.
OtherCallStep ==
    /\ Len(args') = Len(args) + 1
    /\ args'[Len(args')].call # "set_resharding_strategy"

\* C26 (amended): once a strategy has been set on a task spec, only a further
\* call of set_resharding_strategy changes what a read returns: every other
\* call leaves the strategy as it is, and a further set replaces it by its
\* argument.
C26_OnlySetChangesStrategy ==
    [][ Truthy(task_spec.strategy) =>
          /\ OtherCallStep => strategy(task_spec') = strategy(task_spec)
          /\ ~OtherCallStep =>
                strategy(task_spec').value = args'[Len(args')].s ]_vars

\* C26 witness: a strategy was set, read, used for the participants and read
\* again, and the last read returned it.
C26_Witness ==
    /\ Len(args) = 4
    /\ args[1].call = "set_resharding_strategy"
    /\ args[2].call = "strategy"
    /\ args[3].call = "get_participant_device_strs"
    /\ args[4].call = "strategy"
    /\ result = args[1].s

\* C26 (as stated): once a strategy has been set on a task spec, no later
\* operation, a further set_resharding_strategy included, changes the
\* strategy that a read returns.
C26_StrategyIsImmutable ==
    [][ Truthy(task_spec.strategy) =>
          strategy(task_spec').value = strategy(task_spec).value ]_vars

\* ---------------------------------------------- claims: instantiate_now
\* C27: instantiate_now() requests init_collective_group of every member
\* worker, with the world size the number of workers of both meshes and the
\* rank the worker's own, and returns only when every worker has
\* acknowledged: at its return the group exists on every member.
C27_GroupCompleteAtReturn ==
    (last_call = "instantiate_now" /\ exec.call = "instantiate_now") =>
        /\ Cardinality(exec.results) = Len(collective_group.mesh_workers)
        /\ \A w \in Range(collective_group.mesh_workers) :
              \E req \in exec.results :
                  /\ req.worker = w
                  /\ req.method = "init_collective_group"
                  /\ req.world_size
                        = meshes[0].num_hosts + meshes[1].num_hosts
                  /\ req.rank = collective_group.worker_to_rank_map[w]
                  /\ req.group_name = collective_group.group_name
        /\ exec.returned =>
              /\ exec.results \cap outstanding = {}
              /\ Range(collective_group.mesh_workers) \subseteq worker_groups

\* C27 witness: instantiate_now() has returned on a group of three or more
\* workers, after a destroy had emptied the group.
C27_Witness ==
    /\ last_call = "instantiate_now"
    /\ exec.call = "instantiate_now"
    /\ exec.returned
    /\ calls >= 3
    /\ Len(collective_group.mesh_workers) >= 3
    /\ Range(collective_group.mesh_workers) \subseteq worker_groups


\* ------------------------------------------- claims: the returned array
\* The array a call returned last names the destination mesh and has one
\* buffer per device of that mesh: the buffer at flat index f is the one
\* allocated on the device with flat index f, and no buffer is listed twice.
OneBufferPerDevice(key) ==
    LET array == arrays[Len(arrays)]
        bufs == array.remote_buffers
    IN  /\ array.device_mesh = key[2]
        /\ Len(bufs) = num_devices(meshes[key[2]])
        /\ \A f \in DOMAIN bufs : bufs[f][2] = DeviceStr(key[2], f - 1)
        /\ \A f, g \in DOMAIN bufs : f # g => bufs[f] # bufs[g]

\* C22: do on an array of the task's source mesh and sharding, and
\* do_prepared run without profiling, both return an array whose buffer list
\* has exactly one buffer per destination device, each at its device's flat
\* index, none missing and none twice.
C22_ResultHasOneBufferPerDevice ==
    /\ (/\ exec.call = "do"
        /\ ~ForeignArray(exec)
        /\ arrays[exec.src_array].sharding = SpecAt(exec.key).src)
          => (raised = None /\ Len(arrays) > 1 /\ OneBufferPerDevice(exec.key))
    /\ (exec.call = "do_prepared" /\ exec.returned /\ ~exec.profiling)
          => (raised = None /\ OneBufferPerDevice(exec.key))

\* The half of C22 about do_prepared.
DoPreparedResultHasOneBufferPerDevice ==
    (exec.call = "do_prepared" /\ exec.returned /\ ~exec.profiling)
        => (raised = None /\ OneBufferPerDevice(exec.key))


\* ------------------------------------ the immediate path's tile transfers
\* Most same_destination_group_send_recv calls in a behaviour.
MaxEagerCalls == 2

\* ray.get(refs) waiting for the sends only.
RayGet_SendsOnly(refs, pending) ==
    \A q \in refs \cap pending : q.method # "send_tile"

\* ray.get(refs) returns once every request of refs is acknowledged.
RayGet(refs, pending) == refs \cap pending = {}

\* The control thread is inside same_destination_group_send_recv.
Sending == exec.call = "same_destination_group_send_recv" /\ ~exec.returned

\* The same_destination_group_send_recv calls made so far.
EagerCalls == {q \in Range(issued) : q.method = "put_non_zero_buffer"}

\* The request that puts the empty result buffer on the receiver's worker.
PutNonZeroBuffer(group, receiver, result_buf, dst_tile, n) ==
    [worker |-> group.device_str_to_mesh_worker_map[receiver],
     method |-> "put_non_zero_buffer",
     uuid |-> result_buf,
     device_id |-> group.device_str_to_device_id_map[receiver],
     shape |-> dst_tile.tile_shape,
     call |-> n,
     transfer |-> 0]

\* The send_tile and recv_tile requests of pass i of the loop over the
\* senders: the sender's buffer is the one src_array keeps at the sender's
\* flat index, and each side names the other's rank and gpu index.
TransferRequests(group, src_array, senders, src_tiles, indices_in_dst_tiles, receiver, result_buf, n, i) ==
    LET sender_rank == group.device_str_to_rank_map[senders[i]]
        receiver_rank == group.device_str_to_rank_map[receiver]
        sender_buf == src_array.remote_buffers[senders[i][2] + 1]
    IN  <<[worker |-> group.device_str_to_mesh_worker_map[senders[i]],
           method |-> "send_tile",
           uuid |-> sender_buf,
           offset |-> src_tiles[i].offset,
           rank |-> receiver_rank[1],
           gpu_idx |-> receiver_rank[2],
           call |-> n,
           transfer |-> i],
          [worker |-> group.device_str_to_mesh_worker_map[receiver],
           method |-> "recv_tile",
           uuid |-> result_buf,
           device_id |-> group.device_str_to_device_id_map[receiver],
           indices |-> indices_in_dst_tiles[i],
           rank |-> sender_rank[1],
           gpu_idx |-> sender_rank[2],
           call |-> n,
           transfer |-> i]>>

\* same_destination_group_send_recv(src_array, senders, src_tiles, dst_tile,
\* indices_in_dst_tiles, receiver) up to its first ray.get, with the
\* arguments do derives for replica r of destination tile i: the result
\* buffer gets its handle and the request to put an empty buffer is issued.
SameDestinationGroupSendRecv ==
    /\ ReadyToRun
    /\ ~Sending
    /\ Cardinality(EagerCalls) < MaxEagerCalls
    /\ \E k \in DOMAIN task_spec_iter : \E a \in DOMAIN arrays :
       \E key \in {task_spec_iter[k]} :
       \E spec \in {SpecAt(key)} :
       \E map \in {MapOf(spec)} :
          /\ arrays[a].device_mesh = key[1]
          /\ arrays[a].sharding = spec.src
          /\ \E i \in DOMAIN map :
             \E r \in DOMAIN map[i].dst_tile.replica_device_strs :
             \E receiver \in {map[i].dst_tile.replica_device_strs[r]} :
             \E n \in {Cardinality(EagerCalls) + 1} :
             \E result_buf \in {BufferUuid(-n, receiver)} :
             \E senders \in {[s \in DOMAIN map[i].src_tile_slices |->
                                 spec.strategy.per_spec_plans[i][r][s]]} :
             \E put \in {PutNonZeroBuffer(collective_group, receiver,
                                          result_buf, map[i].dst_tile, n)} :
                /\ issued' = Append(issued, put)
                /\ outstanding' = outstanding \cup {put}
                /\ exec' = [call |-> "same_destination_group_send_recv",
                            profiling |-> FALSE, returned |-> FALSE,
                            key |-> key, src_array |-> a,
                            results |-> {put},
                            result_buf |-> result_buf,
                            step |-> 0,
                            transfers |->
                                [s \in DOMAIN senders |->
                                    TransferRequests(collective_group,
                                        arrays[a], senders,
                                        map[i].src_tile_slices,
                                        map[i].indices_in_dst_tile,
                                        receiver, result_buf, n, s)]]
    /\ UNCHANGED <<geoVars, commVars, groupVars, taskVars, arrays,
                   buffer_data, callVars>>

\* One pass of the loop over the senders: once the requests waited for are
\* acknowledged, the send_tile / recv_tile pair of the next transfer is
\* issued and waited for.
SendRecvPass ==
    /\ Sending
    /\ RayGet(exec.results, outstanding)
    /\ exec.step < Len(exec.transfers)
    /\ \E pair \in {exec.transfers[exec.step + 1]} :
          /\ issued' = issued \o pair
          /\ outstanding' = outstanding \cup Range(pair)
          /\ exec' = [exec EXCEPT !.step = @ + 1, !.results = Range(pair)]
    /\ UNCHANGED <<geoVars, commVars, groupVars, taskVars, arrays,
                   buffer_data, callVars>>

\* After the last pass is acknowledged the result buffer is returned.
SendRecvReturn ==
    /\ Sending
    /\ RayGet(exec.results, outstanding)
    /\ exec.step = Len(exec.transfers)
    /\ exec' = [exec EXCEPT !.returned = TRUE]
    /\ result' = exec.result_buf
    /\ UNCHANGED <<geoVars, commVars, groupVars, taskVars, arrays,
                   buffer_data, outstanding, issued, args>>

\* The send_tile request a recv_tile request is matched with.
MatchingSend(recv) ==
    CHOOSE q \in Range(issued) :
        /\ q.method = "send_tile"
        /\ q.call = recv.call
        /\ q.transfer = recv.transfer

\* A worker completes one of the requests it was sent: put_non_zero_buffer
\* creates the buffer, recv_tile writes the region the matching send_tile
\* reads from the sender's buffer at its indices of the buffer, which has to
\* exist by then.
WorkerTile ==
    /\ \E req \in outstanding :
          /\ outstanding' = outstanding \ {req}
          /\ IF req.method = "put_non_zero_buffer"
             THEN buffer_data' =
                      [u \in DOMAIN buffer_data \cup {req.uuid} |->
                          IF u = req.uuid
                          THEN [l \in Positions(req.shape) |-> Uninitialised]
                          ELSE buffer_data[u]]
             ELSE IF req.method = "recv_tile"
             THEN /\ req.uuid \in DOMAIN buffer_data
                  /\ \E send \in {MatchingSend(req)} :
                     \E tile \in {Extract(buffer_data[send.uuid], send.offset)} :
                        buffer_data' =
                            [buffer_data EXCEPT ![req.uuid] =
                                [l \in DOMAIN @ |->
                                    IF \A i \in Axes :
                                          /\ req.indices[i].start <= l[i]
                                          /\ l[i] < req.indices[i].stop
                                    THEN tile[<<l[1] - req.indices[1].start,
                                                l[2] - req.indices[2].start>>]
                                    ELSE @[l]]]
             ELSE buffer_data' = buffer_data
    /\ UNCHANGED <<geoVars, commVars, groupVars, taskVars, arrays, exec,
                   issued, callVars>>

NextEager ==
    \/ AssignStep
    \/ EstablishGroup
    \/ SameDestinationGroupSendRecv
    \/ SendRecvPass
    \/ WorkerTile
    \/ SendRecvReturn

SpecEager == InitExec /\ [][NextEager]_vars


\* ------------------------------------------- claims: the immediate path
\* C21: in a same_destination_group_send_recv call the receiver's empty
\* buffer exists before any transfer into it is issued, and the transfers
\* go one at a time: whenever a request of the call is issued, no request
\* of the call issued before that transfer's pair is still unacknowledged.
C21_OneTransferInFlight ==
    \A q \in Range(issued) :
        q.method \in {"send_tile", "recv_tile"} =>
            /\ \A p \in outstanding :
                  (p.method \in {"put_non_zero_buffer", "send_tile", "recv_tile"}
                   /\ p.call = q.call) => p.transfer >= q.transfer
            /\ \E u \in DOMAIN buffer_data :
                  \E p \in Range(issued) :
                     /\ p.method = "put_non_zero_buffer"
                     /\ p.call = q.call
                     /\ p.uuid = u

\* The pair of a second transfer is in flight, the first one acknowledged.
C21_Witness ==
    /\ Sending
    /\ exec.step = 2
    /\ Range(exec.transfers[2]) \subseteq outstanding
    /\ Range(exec.transfers[1]) \cap outstanding = {}


\* ------------------------------------------------ claims: communicators
\* The transfers of the task compiled last, as (sender device, receiver
\* device) pairs.
TransfersOf(t) ==
    {<<PassSender(SpecAt(t.key).strategy.per_spec_plans, p),
       PassReceiver(MapOf(SpecAt(t.key)), p)>> :
        p \in Range(SenderPasses(MapOf(SpecAt(t.key))))}

\* The init_p2p_communicator calls made on a worker for the communicator
\* between its device (rank, gpu index) and a peer's.
InitsOn(t, worker, mine, peer) ==
    {k \in DOMAIN t.communicators :
        /\ t.communicators[k].method = "init_p2p_communicator"
        /\ t.communicators[k].worker = worker
        /\ t.communicators[k].my_rank = mine[1]
        /\ t.communicators[k].my_gpu_idx = mine[2]
        /\ t.communicators[k].peer_rank = peer[1]
        /\ t.communicators[k].peer_gpu_idx = peer[2]}

\* C24: a task constructed with eager communicator creation has, when the
\* constructor returns, for every transfer exactly one communicator
\* initialised on the sender's worker and exactly one on the receiver's
\* worker, both with the same id, which no other pair of devices shares;
\* and no communicator is initialised for a pair that transfers nothing.
C24_EveryTransferHasItsCommunicator ==
    (task.compiled /\ task.eagerly_create_communicators) =>
        LET group == collective_group
            Rank(d) == group.device_str_to_rank_map[d]
            Worker_(d) == group.device_str_to_mesh_worker_map[d]
            Uid(k) == task.communicators[k].nccl_uid
        IN  /\ \A x \in TransfersOf(task) :
                  \E a \in InitsOn(task, Worker_(x[1]), Rank(x[1]), Rank(x[2])) :
                  \E b \in InitsOn(task, Worker_(x[2]), Rank(x[2]), Rank(x[1])) :
                     /\ InitsOn(task, Worker_(x[1]), Rank(x[1]), Rank(x[2])) = {a}
                     /\ InitsOn(task, Worker_(x[2]), Rank(x[2]), Rank(x[1])) = {b}
                     /\ Uid(a) = Uid(b)
                     /\ \A k \in DOMAIN task.communicators :
                           (task.communicators[k].method = "init_p2p_communicator"
                            /\ Uid(k) = Uid(a)) => k \in {a, b}
            /\ Cardinality({k \in DOMAIN task.communicators :
                   task.communicators[k].method = "init_p2p_communicator"})
                  = 2 * Cardinality(TransfersOf(task))

\* A task built eagerly whose receive tasks name at least three different
\* communicators, two of them for one receiving device.
C24_Witness ==
    /\ task.compiled
    /\ task.eagerly_create_communicators
    /\ Cardinality(TransfersOf(task)) >= 3
    /\ \E x, y \in TransfersOf(task) : x # y /\ x[2] = y[2]
    /\ Len(task.communicators) = 3 * Cardinality(TransfersOf(task))


\* ---------------------------------------------- claims: allgather groups
\* The positions along an axis that a slice covers.
SliceCells(sl) == sl.start .. (sl.stop - 1)

\* The allgather groups compiled last, every worker's.
CompiledGroups ==
    UNION {{result.value.allgather_tasks[w][g] :
               g \in DOMAIN result.value.allgather_tasks[w]} :
           w \in DOMAIN result.value.allgather_tasks}

SendOps(t, group, w) ==
    LET Mine(d) == group.device_str_to_mesh_worker_map[d] = w
        mine == SelectSeq(t.sender_uuid_plan, Mine)
    IN  [i \in 1..Len(t.sender_tasks[w]) |->
            <<group.worker_to_rank_map[w],
              group.device_str_to_device_id_map[mine[i]],
              t.sender_tasks[w][i].rank,
              t.sender_tasks[w][i].gpu_idx>>]

\* The receives of a destination worker in list order: task by task, tile
\* spec by tile spec, each as the communicator it comes over.
RecvOps(t, group, w) ==
    LET slots == RecvSlots(group, [worker |-> w, entries |-> t.receiver_tasks[w]])
    IN  [m \in 1..Len(slots) |-> slots[m].comm]

\* The workers run the lists of a task.
Running == exec.call = "run_resharding_tasks"

\* Every worker has reached the end of its list.
Finished ==
    /\ Running
    /\ \A w \in DOMAIN exec.ops : exec.pos[w] > Len(exec.ops[w])

\* The workers are handed the task compiled last: every source worker
\* starts at the head of its send list and every destination worker at the
\* head of its receive list.
StartRun ==
    /\ task.compiled
    /\ raised = None
    /\ exec.key # task.key
    /\ Running => Finished
    /\ \E src_workers \in {Range(workers(task.key[1], meshes[task.key[1]]))} :
       \E dst_workers \in {Range(workers(task.key[2], meshes[task.key[2]]))} :
          exec' = [call |-> "run_resharding_tasks", profiling |-> FALSE,
                   returned |-> FALSE, key |-> task.key,
                   senders |-> src_workers,
                   ops |-> [w \in src_workers \cup dst_workers |->
                               IF w \in src_workers
                               THEN SendOps(task, collective_group, w)
                               ELSE RecvOps(task, collective_group, w)],
                   pos |-> [w \in src_workers \cup dst_workers |-> 1]]
    /\ UNCHANGED <<geoVars, commVars, groupVars, taskVars, arrays, buffer_data,
                   outstanding, issued, callVars>>

\* A transfer: the send a source worker is blocked in and the receive a
\* destination worker is blocked in go over the same communicator, so both
\* complete and both workers move to their next entry.
Transfer ==
    /\ Running
    /\ \E sw \in exec.senders : \E rw \in DOMAIN exec.ops \ exec.senders :
          /\ exec.pos[sw] <= Len(exec.ops[sw])
          /\ exec.pos[rw] <= Len(exec.ops[rw])
          /\ exec.ops[sw][exec.pos[sw]] = exec.ops[rw][exec.pos[rw]]
          /\ exec' = [exec EXCEPT !.pos[sw] = @ + 1, !.pos[rw] = @ + 1]
    /\ UNCHANGED <<geoVars, commVars, groupVars, taskVars, arrays, buffer_data,
                   outstanding, issued, callVars>>

\* The next task is compiled when no run is under way.
CompileIdle ==
    /\ Running => Finished
    /\ CompileTask

NextRun ==
    \/ AssignStep
    \/ EstablishGroup
    \/ CompileIdle
    \/ StartRun
    \/ Transfer

\* The runs are between two meshes of 2 hosts x 2 devices, so that two
\* senders and two receivers run side by side.
InitRun == InitExecOn(Mesh(2, 2), Mesh(2, 2))

\* The workers keep running: a transfer that can complete does.
SpecRun == InitRun /\ [][NextRun]_vars /\ WF_vars(Transfer)


\* ------------------------------------------------- claims: no deadlock
\* C29: when the workers run the send and receive lists of a compiled task
\* in list order, every send and receive blocking until its counterpart is
\* posted, every worker reaches the end of its list.
C29_EveryTransferCompletes == Running ~> Finished

\* A run is finished in which two source workers sent, two destination
\* workers received and a worker took part in at least three transfers.
C29_Witness ==
    /\ Finished
    /\ Cardinality({w \in exec.senders : Len(exec.ops[w]) >= 1}) >= 2
    /\ Cardinality({w \in DOMAIN exec.ops \ exec.senders :
                       Len(exec.ops[w]) >= 1}) >= 2
    /\ \E w \in DOMAIN exec.ops : Len(exec.ops[w]) >= 3

====
